---- MODULE Spec2Model ----
(***************************************************************************)
(* pgkit: the condition compiler (db/cond.go), the record mapper           *)
(* (MapWithOptions / Map) and the type-index cache behind it.              *)
(*                                                                         *)
(* SQL text is a sequence of tokens.  A token is a single separator        *)
(* character (" ", "(", ")", ",", "?") or a maximal run of other           *)
(* characters, so two fragments are the same text exactly when they are    *)
(* the same sequence.  The token "?" is the positional marker.             *)
(***************************************************************************)
EXTENDS Integers, Sequences, FiniteSets, TLC

\* ------------------------------------------------------------------ bounds
MaxVal == 2
MaxParams == 2
ArrayLen == 2
MaxFields == 2
NumGoroutines == 2
NumRecords == 3
MaxLimit == 2
MaxQuery == 4
WordBits == 6
MaxRows == 4

\* --------------------------------------------------------- Go values
\* interface{} values are tagged records; kind tells the dynamic type.
Nil == [kind |-> "nil"]
Val(n) == [kind |-> "val", v |-> n]
Str(s) == [kind |-> "str", s |-> s]
Slice(elems) == [kind |-> "slice", elems |-> elems]

\* the empty string / empty fragment
Empty == <<>>

\* paramPlaceholder
paramPlaceholder == <<"?">>

\* a compiled result (fragment, args, err); err = <<>> is the nil error, else
\* the chain of messages, outermost first.  bind is a history of the values
\* the markers of sql were written for, in text order.
Result(sql, args, bind) == [sql |-> sql, args |-> args, bind |-> bind, err |-> <<>>]
Failure(msgs) == [sql |-> Empty, args |-> <<>>, bind |-> <<>>, err |-> msgs]
Wrap(msg, r) == Failure(<<msg>> \o r.err)

\* ------------------------------------------------- expression constructors
binaryExprLeaf(op, v) == [kind |-> "leaf", op |-> op, v |-> v]
Eq(v) == binaryExprLeaf(<<"=">>, v)
NotEq(v) == binaryExprLeaf(<<"<>">>, v)
Gt(v) == binaryExprLeaf(<<">">>, v)
Gte(v) == binaryExprLeaf(<<">=">>, v)
Lt(v) == binaryExprLeaf(<<"<">>, v)
Lte(v) == binaryExprLeaf(<<"<=">>, v)
IsNull == binaryExprLeaf(<<"IS", " ", "NULL">>, Nil)
IsNotNull == binaryExprLeaf(<<"IS", " ", "NOT", " ", "NULL">>, Nil)
Like(v) == binaryExprLeaf(<<"LIKE">>, v)
NotLike(v) == binaryExprLeaf(<<"NOT", " ", "LIKE">>, v)
ILike(v) == binaryExprLeaf(<<"ILIKE">>, v)
NotILike(v) == binaryExprLeaf(<<"NOT", " ", "ILIKE">>, v)

\* sqlExpr values, told apart by the closure they hold
Raw(sql, args) == [kind |-> "raw", sql |-> sql, args |-> args]
Func(name, params) == [kind |-> "func", name |-> name, params |-> params]
In(v) == Func(<<"IN">>, v)
NotIn(v) == Func(<<"NOT", " ", "IN">>, v)
InMultiple(v) == [kind |-> "inmultiple", v |-> v]

\* squirrel.And / squirrel.Or, and a squirrel select statement
\* SELECT <col> FROM <from> WHERE <where>; cols = 0 is a statement without
\* result columns, which squirrel refuses to compile
And(parts) == [kind |-> "and", parts |-> parts]
Or(parts) == [kind |-> "or", parts |-> parts]
Select(cols, where) == [kind |-> "select", cols |-> cols, where |-> where]

\* Cond; entries is the map's pairs <<left, right>> in the order this
\* iteration over the map visits them
Cond(entries) == [kind |-> "cond", entries |-> entries]

IsString(x) == x.kind = "str"
IsBinaryExprLeaf(x) == x.kind = "leaf"
IsSqlExpr(x) == x.kind \in {"raw", "func", "funclater", "inmultiple"}
IsSqlizer(x) ==
  x.kind \in {"leaf", "raw", "func", "funclater", "inmultiple", "and", "or", "select", "cond"}

\* ------------------------------------------------------------ text helpers
RECURSIVE Flatten(_)
Flatten(seqs) == IF seqs = <<>> THEN <<>> ELSE Head(seqs) \o Flatten(Tail(seqs))

\* strings.Join
RECURSIVE Join(_, _)
Join(parts, sep) ==
  IF parts = <<>> THEN <<>>
  ELSE IF Len(parts) = 1 THEN parts[1]
  ELSE parts[1] \o sep \o Join(Tail(parts), sep)

\* strings.Repeat
RECURSIVE Repeat(_, _)
Repeat(s, n) == IF n <= 0 THEN <<>> ELSE s \o Repeat(s, n - 1)

\* strings.TrimSuffix for a one-token suffix
TrimSuffix(s, tok) ==
  IF s # <<>> /\ s[Len(s)] = tok THEN SubSeq(s, 1, Len(s) - 1) ELSE s

\* the number of positional markers of a fragment
RECURSIVE CountMarkers(_)
CountMarkers(sql) ==
  IF sql = <<>> THEN 0
  ELSE (IF Head(sql) = "?" THEN 1 ELSE 0) + CountMarkers(Tail(sql))

\* an error message; at is the index the message names, -1 when it names none
Msg(text, at) == [msg |-> text, at |-> at]

\* --------------------------------------------------------------- squirrel
\* squirrel.Placeholders: "?,?,?"
Placeholders(n) == Join([i \in 1..n |-> <<"?">>], <<",">>)

\* squirrel.Eq{key: val}.ToSql() for a one-entry map whose value is no Sqlizer
SquirrelEq(key, val) ==
  IF val.kind = "nil" THEN Result(key \o <<" ", "IS", " ", "NULL">>, <<>>, <<>>)
  ELSE IF val.kind = "slice" THEN
    IF Len(val.elems) = 0 THEN Result(<<"(", "1=0", ")">>, <<>>, <<>>)
    ELSE Result(key \o <<" ", "IN", " ", "(">> \o Placeholders(Len(val.elems)) \o <<")">>,
                val.elems, val.elems)
  ELSE Result(key \o <<" ", "=", " ", "?">>, <<val>>, <<val>>)

\* ------------------------------------------------------------- db/cond.go
RECURSIVE ToSql(_)
RECURSIVE compileLeaf(_)
RECURSIVE binaryExprNodeToSql(_, _)
RECURSIVE compileNodesFrom(_, _, _)
RECURSIVE FuncLoop(_, _, _, _)
RECURSIVE conjLoop(_, _, _)

\* a leaf that writes a marker for an absent value too
binaryExprLeafToSql_AlwaysMarker(c) == Result(<<"?">>, <<c.v>>, <<c.v>>)

binaryExprLeafToSql(c) ==
  IF c.v = Nil THEN Result(Empty, <<>>, <<>>)
  ELSE Result(<<"?">>, <<c.v>>, <<c.v>>)

\* compileOperator forgetting the leaf's own operator
compileOperator_AlwaysEq(leaf) ==
  IF IsSqlExpr(leaf) THEN Empty ELSE <<" ", "=">>

compileOperator(leaf) ==
  IF IsBinaryExprLeaf(leaf) THEN <<" ">> \o leaf.op
  ELSE IF IsSqlExpr(leaf) THEN Empty
  ELSE <<" ", "=">>

\* compileLeaf splicing a nested Sqlizer without the parentheses
compileLeaf_NoParens(leaf) ==
  IF IsString(leaf) THEN Result(leaf.s, <<>>, <<>>)
  ELSE IF IsBinaryExprLeaf(leaf) THEN binaryExprLeafToSql(leaf)
  ELSE IF IsSqlizer(leaf) THEN
    LET r == ToSql(leaf) IN
    IF r.err # <<>> THEN Wrap(Msg("error compiling leaf", -1), r) ELSE r
  ELSE Result(<<"?">>, <<leaf>>, <<leaf>>)

compileLeaf(leaf) ==
  IF IsString(leaf) THEN Result(leaf.s, <<>>, <<>>)
  ELSE IF IsBinaryExprLeaf(leaf) THEN binaryExprLeafToSql(leaf)
  ELSE IF IsSqlExpr(leaf) THEN ToSql(leaf)
  ELSE IF IsSqlizer(leaf) THEN
    LET r == ToSql(leaf) IN
    IF r.err # <<>> THEN Wrap(Msg("error compiling leaf", -1), r)
    ELSE Result(<<"(">> \o r.sql \o <<")">>, r.args, r.bind)
  ELSE Result(<<"?">>, <<leaf>>, <<leaf>>)

\* binaryExprNode.ToSql returning the left arguments alone on every path
binaryExprNodeToSql_DropRight(left, right) ==
  IF IsString(left) /\ ~IsSqlizer(right) THEN SquirrelEq(left.s, right)
  ELSE
    LET l == compileLeaf(left)
        r == compileLeaf(right) IN
    IF l.err # <<>> THEN Wrap(Msg("error compiling left side", -1), l)
    ELSE IF r.err # <<>> THEN Wrap(Msg("error compiling right side", -1), r)
    ELSE IF r.sql = Empty
      THEN Result(l.sql \o compileOperator(right), l.args, l.bind)
      ELSE Result(l.sql \o compileOperator(right) \o <<" ">> \o r.sql, l.args, l.bind \o r.bind)

\* binaryExprNode.ToSql appending the left arguments after the right ones
binaryExprNodeToSql_RightFirst(left, right) ==
  IF IsString(left) /\ ~IsSqlizer(right) THEN SquirrelEq(left.s, right)
  ELSE
    LET l == compileLeaf(left)
        r == compileLeaf(right) IN
    IF l.err # <<>> THEN Wrap(Msg("error compiling left side", -1), l)
    ELSE IF r.err # <<>> THEN Wrap(Msg("error compiling right side", -1), r)
    ELSE IF r.sql = Empty
      THEN Result(l.sql \o compileOperator(right), l.args, l.bind)
      ELSE Result(l.sql \o compileOperator(right) \o <<" ">> \o r.sql,
                  r.args \o l.args, l.bind \o r.bind)

binaryExprNodeToSql(left, right) ==
  IF IsString(left) /\ ~IsSqlizer(right) THEN SquirrelEq(left.s, right)
  ELSE
    LET l == compileLeaf(left) IN
    IF l.err # <<>> THEN Wrap(Msg("error compiling left side", -1), l)
    ELSE
      LET r == compileLeaf(right) IN
      IF r.err # <<>> THEN Wrap(Msg("error compiling right side", -1), r)
      ELSE IF r.sql = Empty
        THEN Result(l.sql \o compileOperator(right), l.args, l.bind)
        ELSE Result(l.sql \o compileOperator(right) \o <<" ">> \o r.sql,
                    l.args \o r.args, l.bind \o r.bind)

\* compileNodes going on after a node that failed
compileNodesFrom_SkipFailed(entries, i, acc) ==
  IF i > Len(entries) THEN acc
  ELSE
    LET n == binaryExprNodeToSql(entries[i][1], entries[i][2]) IN
    IF n.err # <<>> THEN compileNodesFrom(entries, i + 1, acc)
    ELSE compileNodesFrom(entries, i + 1,
           Result(acc.sql \o n.sql, acc.args \o n.args, acc.bind \o n.bind))

\* compileNodes over the binaryExprNodes of entries[i..], acc the result so far
compileNodesFrom(entries, i, acc) ==
  IF i > Len(entries) THEN acc
  ELSE
    LET n == binaryExprNodeToSql(entries[i][1], entries[i][2]) IN
    IF n.err # <<>> THEN Wrap(Msg("error compiling node", i - 1), n)
    ELSE compileNodesFrom(entries, i + 1,
           Result(acc.sql \o n.sql, acc.args \o n.args, acc.bind \o n.bind))

CondToSql(c) == compileNodesFrom(c.entries, 1, Result(Empty, <<>>, <<>>))

\* the loop of Func leaving out the arguments of a parameter that is an
\* expression
FuncLoop_DropExprArgs(name, params, i, acc) ==
  IF i > Len(params) THEN acc
  ELSE IF IsSqlizer(params[i]) THEN
    LET p == ToSql(params[i]) IN
    IF p.err # <<>> THEN Wrap(Msg("error compiling argument", i - 1), p)
    ELSE FuncLoop(name, params, i + 1,
           [places |-> Append(acc.places, p.sql), args |-> acc.args,
            bind |-> acc.bind, err |-> <<>>])
  ELSE FuncLoop(name, params, i + 1,
         [places |-> Append(acc.places, paramPlaceholder), args |-> Append(acc.args, params[i]),
          bind |-> Append(acc.bind, params[i]), err |-> <<>>])

\* the loop of Func over params[i..]; places the fragments so far
FuncLoop(name, params, i, acc) ==
  IF i > Len(params) THEN acc
  ELSE IF IsSqlizer(params[i]) THEN
    LET p == ToSql(params[i]) IN
    IF p.err # <<>> THEN Wrap(Msg("error compiling argument", i - 1), p)
    ELSE FuncLoop(name, params, i + 1,
           [places |-> Append(acc.places, p.sql), args |-> acc.args \o p.args,
            bind |-> acc.bind \o p.bind, err |-> <<>>])
  ELSE FuncLoop(name, params, i + 1,
         [places |-> Append(acc.places, paramPlaceholder), args |-> Append(acc.args, params[i]),
          bind |-> Append(acc.bind, params[i]), err |-> <<>>])

\* Func returning its arguments last first
Reverse(seq) == [i \in DOMAIN seq |-> seq[Len(seq) + 1 - i]]
FuncToSql_ArgsReversed(f) ==
  LET r == FuncLoop(f.name, f.params, 1,
                    [places |-> <<>>, args |-> <<>>, bind |-> <<>>, err |-> <<>>]) IN
  IF r.err # <<>> THEN r
  ELSE Result(f.name \o <<" ", "(">> \o Join(r.places, <<",", " ">>) \o <<")">>,
              Reverse(r.args), Reverse(r.bind))

FuncToSql(f) ==
  IF Len(f.params) = 0 THEN Result(f.name \o <<" ", "(", ")">>, <<>>, <<>>)
  ELSE
    LET r == FuncLoop(f.name, f.params, 1,
                      [places |-> <<>>, args |-> <<>>, bind |-> <<>>, err |-> <<>>]) IN
    IF r.err # <<>> THEN r
    ELSE Result(f.name \o <<" ", "(">> \o Join(r.places, <<",", " ">>) \o <<")">>,
                r.args, r.bind)

\* ---------------------------------- Func of the later db/cond.go (reflect)
\* a panic of the Go runtime, told apart from an error by its text
RuntimePanic(text) == Failure(<<Msg(text, 0 - 1)>>)
PanicTexts ==
  {"invalid memory address or nil pointer dereference",
   "reflect: call of reflect.Value.Len on zero or non-slice Value"}
IsPanic(r) == r.err # <<>> /\ r.err[Len(r.err)].msg \in PanicTexts

\* reflect.TypeOf(x).Kind() == reflect.Slice; squirrel.And and squirrel.Or
\* are slice types
IsSliceKind(x) == x.kind \in {"slice", "and", "or"}
\* the elements reflect.Value.Index ranges over
Elems(x) == IF x.kind = "slice" THEN x.elems ELSE x.parts

\* the Func of the later version, which takes its parameters for tuples when
\* the first one is a slice
FuncLater(name, params) == [kind |-> "funclater", name |-> name, params |-> params]
InLater(v) == FuncLater(<<"IN">>, v)
NotInLater(v) == FuncLater(<<"NOT", " ", "IN">>, v)

RECURSIVE SubSliceLoop(_, _, _, _)
RECURSIVE SlicesLoop(_, _, _)

\* the loop over subSlice[j..] of the tuple params[i]
SubSliceLoop(subSlice, i, j, acc) ==
  IF j > Len(subSlice) THEN acc
  ELSE
    LET val == subSlice[j] IN
    IF IsSqlizer(val) THEN
      LET p == ToSql(val) IN
      IF p.err # <<>> THEN Wrap(Msg("error compiling argument", i - 1), p)
      ELSE SubSliceLoop(subSlice, i, j + 1,
             [places |-> Append(acc.places, p.sql), args |-> acc.args \o p.args,
              bind |-> acc.bind \o p.bind, err |-> <<>>])
    ELSE IF val.kind = "nil" THEN
      RuntimePanic("invalid memory address or nil pointer dereference")
    ELSE IF val.kind = "slice" THEN
      \* one place for the element, one argument for each of its elements
      SubSliceLoop(subSlice, i, j + 1,
        [places |-> Append(acc.places, IF val.elems = <<>> THEN Empty ELSE paramPlaceholder),
         args |-> acc.args \o val.elems,
         bind |-> acc.bind \o (IF val.elems = <<>> THEN <<>> ELSE <<val.elems[Len(val.elems)]>>),
         err |-> <<>>])
    ELSE SubSliceLoop(subSlice, i, j + 1,
           [places |-> Append(acc.places, paramPlaceholder), args |-> Append(acc.args, val),
            bind |-> Append(acc.bind, val), err |-> <<>>])

\* the loop over the tuples params[i..]
SlicesLoop(params, i, acc) ==
  IF i > Len(params) THEN acc
  ELSE
    LET sub == SubSliceLoop(Elems(params[i]), i, 1,
                 [places |-> <<>>, args |-> acc.args, bind |-> acc.bind, err |-> <<>>]) IN
    IF sub.err # <<>> THEN sub
    ELSE SlicesLoop(params, i + 1,
           [places |-> Append(acc.places, <<"(">> \o Join(sub.places, <<",">>) \o <<")">>),
            args |-> sub.args, bind |-> sub.bind, err |-> <<>>])

FuncLaterToSql(f) ==
  IF Len(f.params) = 0 THEN Result(f.name \o <<" ", "(", ")">>, <<>>, <<>>)
  ELSE IF f.params[1].kind = "nil"
    THEN RuntimePanic("invalid memory address or nil pointer dereference")
  ELSE IF IsSliceKind(f.params[1]) THEN
    IF \E i \in DOMAIN f.params : ~IsSliceKind(f.params[i])
      THEN RuntimePanic("reflect: call of reflect.Value.Len on zero or non-slice Value")
    ELSE
      LET r == SlicesLoop(f.params, 1,
                          [places |-> <<>>, args |-> <<>>, bind |-> <<>>, err |-> <<>>]) IN
      IF r.err # <<>> THEN r
      ELSE Result(f.name \o <<" ", "(">> \o Join(r.places, <<",">>) \o <<")">>, r.args, r.bind)
  ELSE
    LET r == FuncLoop(f.name, f.params, 1,
                      [places |-> <<>>, args |-> <<>>, bind |-> <<>>, err |-> <<>>]) IN
    IF r.err # <<>> THEN r
    ELSE Result(f.name \o <<" ", "(">> \o Join(r.places, <<",", " ">>) \o <<")">>,
                r.args, r.bind)

\* one tuple of InMultiple: "(" + Repeat("?,", n) trimmed + ")"
InMultipleGroup(param) ==
  TrimSuffix(<<"(">> \o Repeat(<<"?", ",">>, Len(param)), ",") \o <<")">>

InMultipleToSql(m) ==
  IF Len(m.v) = 0 THEN Result(<<"IN", " ", "(", ")">>, <<>>, <<>>)
  ELSE
    LET rows == m.v[1] IN
    Result(<<"IN", " ", "(">>
             \o Flatten([i \in 1..Len(rows) |->
                   InMultipleGroup(rows[i]) \o (IF Len(rows) # i THEN <<",">> ELSE <<>>)])
             \o <<")">>,
           Flatten(rows), Flatten(rows))

\* squirrel conj.join over parts[i..]
conjLoop(parts, i, acc) ==
  IF i > Len(parts) THEN acc
  ELSE
    LET p == ToSql(parts[i]) IN
    IF p.err # <<>> THEN [sqlParts |-> <<>>, args |-> <<>>, bind |-> <<>>, err |-> p.err]
    ELSE IF p.sql # Empty THEN
      conjLoop(parts, i + 1,
        [sqlParts |-> Append(acc.sqlParts, p.sql), args |-> acc.args \o p.args,
         bind |-> acc.bind \o p.bind, err |-> <<>>])
    ELSE conjLoop(parts, i + 1, acc)

conjJoin(parts, sep, defaultExpr) ==
  IF Len(parts) = 0 THEN Result(defaultExpr, <<>>, <<>>)
  ELSE
    LET r == conjLoop(parts, 1, [sqlParts |-> <<>>, args |-> <<>>, bind |-> <<>>, err |-> <<>>]) IN
    IF r.err # <<>> THEN Failure(r.err)
    ELSE IF Len(r.sqlParts) > 0
      THEN Result(<<"(">> \o Join(r.sqlParts, sep) \o <<")">>, r.args, r.bind)
      ELSE Result(Empty, r.args, r.bind)

\* squirrel SelectBuilder.ToSql for SELECT id FROM users [WHERE <where>]
SelectToSql(s) ==
  IF s.cols = 0
    THEN Failure(<<Msg("select statements must have at least one result column", -1)>>)
  ELSE IF s.where = Nil THEN Result(<<"SELECT", " ", "id", " ", "FROM", " ", "users">>, <<>>, <<>>)
  ELSE
    LET w == ToSql(s.where) IN
    IF w.err # <<>> THEN Failure(w.err)
    ELSE Result(<<"SELECT", " ", "id", " ", "FROM", " ", "users", " ", "WHERE", " ">> \o w.sql,
                w.args, w.bind)

ToSql(x) ==
  CASE x.kind = "leaf" -> binaryExprLeafToSql(x)
    [] x.kind = "raw" -> Result(x.sql, x.args, x.args)
    [] x.kind = "func" -> FuncToSql(x)
    [] x.kind = "funclater" -> FuncLaterToSql(x)
    [] x.kind = "inmultiple" -> InMultipleToSql(x)
    [] x.kind = "and" -> conjJoin(x.parts, <<" ", "AND", " ">>, <<"(", "1=1", ")">>)
    [] x.kind = "or" -> conjJoin(x.parts, <<" ", "OR", " ">>, <<"(", "1=0", ")">>)
    [] x.kind = "select" -> SelectToSql(x)
    [] x.kind = "cond" -> CondToSql(x)

\* ------------------------------------------- what a call writes to memory
\* Raw(sql, s...) for a caller's slice s: args are the elements of s, spare
\* the elements of its backing array between len(s) and cap(s); the
\* expression keeps s itself, and ToSql returns it
RawOver(sql, args, spare) == [kind |-> "raw", sql |-> sql, args |-> args, spare |-> spare]

\* the spare capacity behind the arguments ToSql returns for x: only Raw
\* hands out a slice it did not allocate
Spare(x) == IF x.kind = "raw" /\ "spare" \in DOMAIN x THEN x.spare ELSE <<>>

\* append(argsl, argsr...) where argsl is what compileLeaf(left) returned:
\* the elements go into the array behind argsl when they fit its capacity
AppendInto(left, argsr) ==
  IF Len(argsr) > 0 /\ Len(argsr) <= Len(Spare(left))
    THEN [left EXCEPT !.spare =
            [i \in 1..Len(left.spare) |-> IF i <= Len(argsr) THEN argsr[i] ELSE left.spare[i]]]
    ELSE left

RECURSIVE AfterToSql(_)
RECURSIVE entriesAfter(_, _)
RECURSIVE partsAfter(_, _)

\* the operands of a binaryExprNode after its ToSql has returned, and
\* whether it returned an error
nodeAfter(left, right) ==
  IF IsString(left) /\ ~IsSqlizer(right)
    THEN [left |-> left, right |-> right, failed |-> SquirrelEq(left.s, right).err # <<>>]
  ELSE
    LET side == [s \in {1, 2} |-> IF s = 1 THEN left ELSE right]
        leaf == [s \in {1, 2} |-> compileLeaf(side[s])]
        after == [s \in {1, 2} |-> AfterToSql(side[s])] IN
    IF leaf[1].err # <<>> THEN [left |-> after[1], right |-> right, failed |-> TRUE]
    ELSE IF leaf[2].err # <<>> THEN [left |-> after[1], right |-> after[2], failed |-> TRUE]
    ELSE IF leaf[2].sql = Empty
      THEN [left |-> after[1], right |-> after[2], failed |-> FALSE]
      ELSE [left |-> AppendInto(after[1], leaf[2].args), right |-> after[2], failed |-> FALSE]

\* the entries of a Cond after compileNodes went over entries[i..]: it stops
\* at the first node that fails
entriesAfter(entries, i) ==
  IF i > Len(entries) THEN <<>>
  ELSE
    LET n == nodeAfter(entries[i][1], entries[i][2]) IN
    << <<n.left, n.right>> >>
      \o (IF n.failed THEN SubSeq(entries, i + 1, Len(entries)) ELSE entriesAfter(entries, i + 1))

\* the parts of an And / Or after conj.join went over parts[i..]: it stops
\* at the first part that fails
partsAfter(parts, i) ==
  IF i > Len(parts) THEN <<>>
  ELSE
    <<AfterToSql(parts[i])>>
      \o (IF ToSql(parts[i]).err # <<>> THEN SubSeq(parts, i + 1, Len(parts))
          ELSE partsAfter(parts, i + 1))

\* the expression x after x.ToSql() has returned; Func and InMultiple
\* build their arguments in a slice of their own
AfterToSql(x) ==
  CASE x.kind = "cond" -> Cond(entriesAfter(x.entries, 1))
    [] x.kind \in {"and", "or"} -> [x EXCEPT !.parts = partsAfter(x.parts, 1)]
    [] x.kind = "select" ->
         IF x.cols = 0 \/ x.where = Nil THEN x ELSE Select(x.cols, AfterToSql(x.where))
    [] OTHER -> x

\* ------------------------------------------------ the expressions compiled
\* sequences over S of length 0..n
SeqsUpTo(S, n) == UNION {[1..k -> S] : k \in 0..n}

Names == {Str(<<"a">>), Str(<<"b">>)}
Scalars == {Val(n) : n \in 1..MaxVal}
Slices == {Slice(e) : e \in SeqsUpTo(Scalars, MaxParams)}
\* values that are no Sqlizer: numbers, nil, strings (also ""), slices
Plain == Scalars \cup {Nil} \cup Names \cup {Str(Empty)} \cup Slices

LeafValues == Scalars \cup {Nil, Str(<<"a">>)}
Leaves ==
  UNION {{Eq(v), NotEq(v), Gt(v), Gte(v), Lt(v), Lte(v),
          Like(v), NotLike(v), ILike(v), NotILike(v)} : v \in LeafValues}
    \cup {IsNull, IsNotNull}

\* Raw fragments, each with as many markers as arguments
Raws ==
  {Raw(<<"ANY", "(", "list", ")">>, <<>>), Raw(Empty, <<>>)}
    \cup {Raw(<<">", " ", "?">>, <<v>>) : v \in Scalars}
    \cup {Raw(<<"BETWEEN", " ", "?", " ", "AND", " ", "?">>, <<v, w>>) : v, w \in Scalars}

SimpleConds ==
  {Cond(<<>>), Cond(<< <<Str(<<"a">>), Val(1)>> >>), Cond(<< <<Str(<<"b">>), Lte(Val(MaxVal))>> >>),
   Cond(<< <<Str(<<"a">>), IsNull>> >>)}

\* nested statements; the one without result columns does not compile
Selects == {Select(1, Nil), Select(0, Nil)} \cup {Select(1, c) : c \in SimpleConds}

FuncNames == {<<"IN">>, <<"NOT", " ", "IN">>, <<"ANY">>}
FuncParams ==
  Scalars \cup {Nil, Raw(<<"list">>, <<>>), Raw(<<">", " ", "?">>, <<Val(1)>>),
                Select(1, Cond(<< <<Str(<<"a">>), Val(1)>> >>)), Select(0, Nil)}
Funcs == {Func(n, ps) : n \in FuncNames, ps \in SeqsUpTo(FuncParams, MaxParams)}

\* tuples over the least and the greatest scalar
Tuples == SeqsUpTo({Val(1), Val(MaxVal)}, MaxParams)
InMultiples ==
  {InMultiple(<<>>)} \cup {InMultiple(<<rows>>) : rows \in SeqsUpTo(Tuples, MaxParams)}

\* And / Or of up to MaxParams children, one level of nesting
ConjChildren == SimpleConds \cup {Raw(<<">", " ", "?">>, <<Val(1)>>), IsNull, Select(0, Nil)}
FlatConjs ==
  UNION {{And(ps), Or(ps)} : ps \in SeqsUpTo(ConjChildren, MaxParams)}
NestedConjChildren ==
  {Cond(<< <<Str(<<"b">>), Val(MaxVal)>> >>), And(<<>>), Or(<<Cond(<<>>)>>),
   And(<<Cond(<< <<Str(<<"a">>), Val(1)>> >>), Cond(<< <<Str(<<"b">>), Gt(Val(1))>> >>)>>),
   Or(<<Cond(<< <<Str(<<"a">>), Val(1)>> >>), Cond(<< <<Str(<<"a">>), IsNull>> >>)>>)}
NestedConjs ==
  UNION {{And(ps), Or(ps)} : ps \in SeqsUpTo(NestedConjChildren, MaxParams)}
Conjs == FlatConjs \cup NestedConjs

\* map keys must be hashable: strings, numbers and pointers to expressions
Lefts ==
  Names \cup Scalars \cup {Eq(Val(1)), IsNull}
    \cup {Raw(<<"ANY", "(", "list", ")">>, <<>>), Raw(<<">", " ", "?">>, <<Val(1)>>),
          Func(<<"ANY">>, <<Raw(<<"list">>, <<>>)>>), Func(<<"ANY">>, <<Val(1)>>),
          Func(<<"ANY">>, <<Select(0, Nil)>>)}
Rights == Plain \cup Leaves \cup Raws \cup Funcs \cup InMultiples \cup Selects \cup Conjs

\* Cond with one entry, and with two entries in either iteration order
Conds1 == {Cond(<< <<l, r>> >>) : l \in Lefts, r \in Rights}
Conds2 ==
  {Cond(<< <<l1, r1>>, <<l2, r2>> >>) :
     l1 \in {Str(<<"a">>), Val(1)}, l2 \in {Str(<<"b">>), Raw(<<">", " ", "?">>, <<Val(1)>>)},
     r1 \in {Val(1), IsNull, Select(0, Nil)}, r2 \in {Val(MaxVal), In(<<Val(1)>>)}}
  \cup
  {Cond(<< <<l2, r2>>, <<l1, r1>> >>) :
     l1 \in {Str(<<"a">>), Val(1)}, l2 \in {Str(<<"b">>), Raw(<<">", " ", "?">>, <<Val(1)>>)},
     r1 \in {Val(1), IsNull, Select(0, Nil)}, r2 \in {Val(MaxVal), In(<<Val(1)>>)}}

Exprs == Leaves \cup Raws \cup Funcs \cup InMultiples \cup Selects \cup Conjs
           \cup {Cond(<<>>)} \cup Conds1 \cup Conds2

\* lists of tuples given to IN / NOT IN; beside tuples of scalars, a tuple
\* holding a nil, one holding a slice and one holding an expression
TupleRows ==
  SeqsUpTo({<<>>, <<Val(1)>>, <<Val(1), Val(MaxVal)>>, <<Val(MaxVal), Val(1)>>}, MaxParams)
    \cup {<< <<Val(1), Nil>> >>, << <<Val(1)>>, <<Slice(<<Val(1), Val(MaxVal)>>)>> >>,
          << <<Raw(<<"now", "(", ")">>, <<>>), Val(1)>> >>}
AsSlices(rows) == [i \in DOMAIN rows |-> Slice(rows[i])]
TupleExprs ==
  UNION {{Cond(<< <<Str(<<"list">>), In(AsSlices(rows))>> >>),
          Cond(<< <<Str(<<"list">>), NotIn(AsSlices(rows))>> >>),
          Cond(<< <<Str(<<"list">>), InMultiple(<<rows>>)>> >>),
          Cond(<< <<Str(<<"list">>), InLater(AsSlices(rows))>> >>),
          Cond(<< <<Str(<<"list">>), NotInLater(AsSlices(rows))>> >>)} : rows \in TupleRows}

\* Raw over a caller's slice: its backing array has up to MaxParams
\* elements beyond the ones passed
SpareValues == SeqsUpTo({Val(1), Val(MaxVal)}, MaxParams)
SpreadRaws ==
  UNION {{RawOver(<<"now", "(", ")">>, <<>>, sp)}
           \cup {RawOver(<<"a", " ", "+", " ", "?">>, <<v>>, sp) : v \in Scalars} :
         sp \in SpareValues}
FrameRights ==
  Plain \cup Leaves \cup Raws \cup Selects
    \cup {In(<<Val(1), Val(MaxVal)>>), InMultiple(<< << <<Val(1), Val(MaxVal)>> >> >>)}
FrameConds == {Cond(<< <<l, r>> >>) : l \in SpreadRaws, r \in FrameRights}
FrameExprs ==
  SpreadRaws \cup FrameConds
    \cup {And(<<c>>) : c \in FrameConds}
    \cup {Select(1, c) : c \in FrameConds}
    \cup {Cond(<< <<Str(<<"b">>), Select(0, Nil)>>, <<l, Val(1)>> >>) : l \in SpreadRaws}

\* ------------------------------------------------- the record mapper (Map)
\* sq.Expr("DEFAULT")
sqlDefault == [kind |-> "default"]

\* a field value, by the kind of its type
IntV(n) == [kind |-> "int", v |-> n]
\* a pointer field, nil or not
PtrV(isNil) == [kind |-> "ptr", nil |-> isNil]
\* a slice field: nil, or with len elements
SliceV(isNil, len) == [kind |-> "slice", nil |-> isNil, len |-> len]
\* an array field [Len(elems)]int
ArrayV(elems) == [kind |-> "array", elems |-> elems]
\* a field of a type with an IsZero() method: zero says whether the value is
\* the zero value of its type, isZero what its IsZero() returns
ZeroerV(zero, isZero) == [kind |-> "iszero", zero |-> zero, isZero |-> isZero]

\* reflect.DeepEqual(fi.Zero.Interface(), value): is the value the zero value
\* of its type
IsZeroValue(val) ==
  CASE val.kind = "int" -> val.v = 0
    [] val.kind = "ptr" -> val.nil
    [] val.kind = "slice" -> val.nil
    [] val.kind = "array" -> \A i \in 1..Len(val.elems) : val.elems[i] = 0
    [] val.kind = "iszero" -> val.zero

\* fld.Len()
FieldLen(val) == IF val.kind = "array" THEN Len(val.elems) ELSE val.len

\* a struct field as the type index knows it: the column name, whether the
\* tag holds db:"...", the omitempty option, and the value the record holds
Field(name, tagged, omitempty, val) ==
  [name |-> name, tagged |-> tagged, omitempty |-> omitempty, val |-> val]

\* the record given to Map: untyped nil, a pointer (nil or to elem), a struct,
\* a map or a scalar
UntypedNil == [kind |-> "nil"]
NilPointer == [kind |-> "pointer", nil |-> TRUE]
PointerTo(elem) == [kind |-> "pointer", nil |-> FALSE, elem |-> elem]
StructOf(fields) == [kind |-> "struct", fields |-> fields]
MapOf(entries) == [kind |-> "map", entries |-> entries]
Scalar == [kind |-> "scalar"]

MapOptions(includeZeroed, includeNil) ==
  [isNil |-> FALSE, IncludeZeroed |-> includeZeroed, IncludeNil |-> includeNil]
NilOptions == [isNil |-> TRUE]
defaultMapOptions == MapOptions(FALSE, FALSE)

\* string order of the column names
ColumnRank(name) ==
  CASE name = "a" -> 1
    [] name = "b" -> 2
    [] name = "c" -> 3

\* fieldValue: fields and values; cols is a history of the column each value
\* was appended for
fieldValue(fields, values, cols) == [fields |-> fields, values |-> values, cols |-> cols]

\* fieldValue.Less
Less(fv, i, j) == ColumnRank(fv.fields[i]) < ColumnRank(fv.fields[j])

SwapAt(seq, i, j) ==
  [k \in 1..Len(seq) |-> IF k = i THEN seq[j] ELSE IF k = j THEN seq[i] ELSE seq[k]]

\* fieldValue.Swap exchanging the names alone
Swap_FieldsOnly(fv, i, j) ==
  fieldValue(SwapAt(fv.fields, i, j), fv.values, fv.cols)

\* fieldValue.Swap
Swap(fv, i, j) ==
  fieldValue(SwapAt(fv.fields, i, j), SwapAt(fv.values, i, j), SwapAt(fv.cols, i, j))

\* sort.Sort(&fv): insertion sort through Less and Swap
RECURSIVE SortInner(_, _)
SortInner(fv, j) ==
  IF j > 1 /\ Less(fv, j, j - 1) THEN SortInner(Swap(fv, j, j - 1), j - 1) ELSE fv

RECURSIVE SortFrom(_, _)
SortFrom(fv, i) ==
  IF i > Len(fv.fields) THEN fv ELSE SortFrom(SortInner(fv, i), i + 1)

Sort(fv) == SortFrom(fv, 2)

\* what Map returns: names, values, the error ("" is nil) and whether the
\* call panicked instead of returning
Returned(names, values, cols, err) ==
  [names |-> names, values |-> values, cols |-> cols, err |-> err, panicked |-> FALSE]
Panicked ==
  [names |-> <<>>, values |-> <<>>, cols |-> <<>>, err |-> "", panicked |-> TRUE]

ErrExpectingPointerToEitherMapOrStruct == "expecting a pointer to either a map or a struct"

\* zero-ness decided by deep equality with the zero value alone
FieldIsZero_DeepEqualOnly(val) == IsZeroValue(val)

\* the zero-ness decision of the struct case
FieldIsZero(val) ==
  IF val.kind = "iszero" THEN val.isZero
  ELSE IF val.kind = "array" \/ val.kind = "slice" THEN FieldLen(val) = 0
  ELSE IsZeroValue(val)

\* one iteration of the struct loop of MapWithOptions
StructStep(fv, fi, options) ==
  IF ~fi.tagged THEN fv
  ELSE IF fi.val.kind = "ptr" /\ fi.val.nil THEN
    IF fi.omitempty /\ ~options.IncludeNil THEN fv
    ELSE fieldValue(Append(fv.fields, fi.name),
                    Append(fv.values, IF fi.omitempty THEN sqlDefault ELSE Nil),
                    Append(fv.cols, fi.name))
  ELSE IF FieldIsZero(fi.val) /\ fi.omitempty /\ ~options.IncludeZeroed THEN fv
  ELSE fieldValue(Append(fv.fields, fi.name),
                  Append(fv.values,
                         IF FieldIsZero(fi.val) /\ fi.omitempty THEN sqlDefault ELSE fi.val),
                  Append(fv.cols, fi.name))

RECURSIVE StructLoop(_, _, _, _)
StructLoop(fv, order, i, options) ==
  IF i > Len(order) THEN fv
  ELSE StructLoop(StructStep(fv, order[i], options), order, i + 1, options)

\* the map case of MapWithOptions: one name and one value per key, in MapKeys
\* order; the value stored is the reflect.Value of the entry
MapLoop(order) ==
  fieldValue([i \in 1..Len(order) |-> order[i].name],
             [i \in 1..Len(order) |-> [kind |-> "reflect.Value", of |-> order[i].val]],
             [i \in 1..Len(order) |-> order[i].name])

\* the map case of the earlier Map: the value stored is the entry's value
MapMapLoop(order) ==
  fieldValue([i \in 1..Len(order) |-> order[i].name],
             [i \in 1..Len(order) |-> order[i].val],
             [i \in 1..Len(order) |-> order[i].name])

\* MapWithOptions; order is the order in which this call's range over the
\* name index (or over MapKeys) visits the entries
MapWithOptions(record, options, order) ==
  LET opts == IF options.isNil THEN defaultMapOptions ELSE options IN
  IF record.kind = "nil" THEN Returned(<<>>, <<>>, <<>>, "")
  ELSE IF record.kind = "pointer" /\ record.nil THEN Panicked
  ELSE
    LET rec == IF record.kind = "pointer" THEN record.elem ELSE record IN
    IF rec.kind \notin {"struct", "map"}
      THEN Returned(<<>>, <<>>, <<>>, ErrExpectingPointerToEitherMapOrStruct)
    ELSE
      LET fv == IF rec.kind = "struct"
                  THEN StructLoop(fieldValue(<<>>, <<>>, <<>>), order, 1, opts)
                  ELSE MapLoop(order) IN
      IF Len(fv.fields) # Len(fv.values)
        THEN Returned(fv.fields, fv.values, fv.cols, "record mapper returned columns and values")
        ELSE LET sorted == Sort(fv) IN Returned(sorted.fields, sorted.values, sorted.cols, "")

\* one iteration of the struct loop of the earlier Map
MapStructStep(fv, fi, options) ==
  IF fi.val.kind = "ptr" /\ fi.val.nil THEN
    IF fi.omitempty /\ ~options.IncludeNil THEN fv
    ELSE fieldValue(Append(fv.fields, fi.name),
                    Append(fv.values, IF fi.omitempty THEN sqlDefault ELSE Nil)
                      \o (IF ~fi.omitempty THEN <<Nil>> ELSE <<>>),
                    Append(fv.cols, fi.name)
                      \o (IF ~fi.omitempty THEN <<fi.name>> ELSE <<>>))
  ELSE IF FieldIsZero(fi.val) /\ fi.omitempty /\ ~options.IncludeZeroed THEN fv
  ELSE fieldValue(Append(fv.fields, fi.name),
                  Append(fv.values,
                         IF FieldIsZero(fi.val) /\ fi.omitempty THEN sqlDefault ELSE fi.val),
                  Append(fv.cols, fi.name))

RECURSIVE MapStructLoop(_, _, _, _)
MapStructLoop(fv, order, i, options) ==
  IF i > Len(order) THEN fv
  ELSE MapStructLoop(MapStructStep(fv, order[i], options), order, i + 1, options)

\* Map(item, options) as it was before MapWithOptions: no tag check, no
\* length check, no sort
Map(item, options, order) ==
  LET opts == IF options.isNil THEN defaultMapOptions ELSE options IN
  IF item.kind = "nil" THEN Returned(<<>>, <<>>, <<>>, "")
  ELSE IF item.kind = "pointer" /\ item.nil THEN Panicked
  ELSE
    LET rec == IF item.kind = "pointer" THEN item.elem ELSE item IN
    IF rec.kind = "struct"
      THEN LET fv == MapStructLoop(fieldValue(<<>>, <<>>, <<>>), order, 1, opts) IN
           Returned(fv.fields, fv.values, fv.cols, "")
    ELSE IF rec.kind = "map"
      THEN LET fv == MapMapLoop(order) IN Returned(fv.fields, fv.values, fv.cols, "")
    ELSE Returned(<<>>, <<>>, <<>>, ErrExpectingPointerToEitherMapOrStruct)

\* ------------------------------------------------------ the records mapped
Columns == {"a", "b"}

FieldVals ==
  {IntV(n) : n \in 0..MaxVal}
    \cup {PtrV(TRUE), PtrV(FALSE)}
    \cup {SliceV(TRUE, 0), SliceV(FALSE, 0), SliceV(FALSE, 1)}
    \cup {ArrayV(<<>>)} \cup {ArrayV(e) : e \in [1..ArrayLen -> {0, 1}]}
    \cup {ZeroerV(z, iz) : z, iz \in BOOLEAN}

\* the fields a column can be: one without a db tag, or a tagged one of any
\* value, with or without omitempty
FieldChoices(name) ==
  {Field(name, FALSE, FALSE, IntV(1))}
    \cup {Field(name, TRUE, oe, v) : oe \in BOOLEAN, v \in FieldVals}

FieldSets ==
  {{}} \cup {{f} : f \in FieldChoices("a")} \cup {{f} : f \in FieldChoices("b")}
    \cup {{f, g} : f \in FieldChoices("a"), g \in FieldChoices("b")}

Structs == {StructOf(fs) : fs \in FieldSets}

MapEntries(name) == {[name |-> name, val |-> IntV(n)] : n \in 0..1}
Maps ==
  {MapOf({})} \cup {MapOf({e}) : e \in MapEntries("a")}
    \cup {MapOf({e, f}) : e \in MapEntries("a"), f \in MapEntries("b")}

Records ==
  {UntypedNil, NilPointer, Scalar, PointerTo(Scalar), PointerTo(NilPointer)}
    \cup Structs \cup {PointerTo(r) : r \in Structs}
    \cup {PointerTo(PointerTo(StructOf({})))}
    \cup Maps \cup {PointerTo(r) : r \in Maps}

OptionValues == {NilOptions} \cup {MapOptions(z, n) : z, n \in BOOLEAN}

\* the sequences that list every element of S once
Orderings(S) ==
  {f \in [1..Cardinality(S) -> S] : \A i, j \in 1..Cardinality(S) : f[i] = f[j] => i = j}

\* the entries the call ranges over, after its single dereference
Entries(rec) ==
  LET r == IF rec.kind = "pointer" /\ ~rec.nil THEN rec.elem ELSE rec IN
  IF r.kind = "struct" THEN r.fields ELSE IF r.kind = "map" THEN r.entries ELSE {}

\* --------------------------------------------- the type index (TypeIndexer)
\* The index builder of internal/reflectx is modelled from its contract:
\* a depth-first walk of the declared fields that flattens an embedded
\* struct without name annotation into its parent at depth + 1.

\* a declared field with its name annotation ("" when it has none)
StructField(decl, tag) == [decl |-> decl, tag |-> tag, embedded |-> FALSE, fields |-> <<>>]
\* an embedded struct without name annotation, and the fields it declares
EmbeddedField(decl, fields) == [decl |-> decl, tag |-> "", embedded |-> TRUE, fields |-> fields]

\* the default name of a declared field: its name in lower case
nameTransform(decl) ==
  CASE decl = "A" -> "a"
    [] decl = "B" -> "b"
    [] decl = "C" -> "c"
    [] OTHER -> decl

\* the annotation's name first, the transformed declared name otherwise
ResolvedName(f) == IF f.tag # "" THEN f.tag ELSE nameTransform(f.decl)

FieldInfo(name, path, depth, embedded) ==
  [Name |-> name, Path |-> path, Depth |-> depth, Embedded |-> embedded]

Absent == [Name |-> "", Path |-> <<>>, Depth |-> 0 - 1, Embedded |-> FALSE]

\* nothing visited yet: no field listed, no name sighted
NothingSeen == [index |-> <<>>, seen |-> <<>>]

\* a sighting that replaces whatever was recorded under the name
Sight_LastWins(acc, fi) ==
  [acc EXCEPT !.seen = (fi.Name :> [info |-> fi, ambiguous |-> FALSE]) @@ @]

\* a sighting of a name: the shallower field wins, a tie at the recorded
\* depth makes the name ambiguous, a deeper field is ignored
Sight(acc, fi) ==
  IF fi.Name \notin DOMAIN acc.seen
    THEN [acc EXCEPT !.seen = (fi.Name :> [info |-> fi, ambiguous |-> FALSE]) @@ @]
  ELSE IF fi.Depth < acc.seen[fi.Name].info.Depth
    THEN [acc EXCEPT !.seen = (fi.Name :> [info |-> fi, ambiguous |-> FALSE]) @@ @]
  ELSE IF fi.Depth = acc.seen[fi.Name].info.Depth
    THEN [acc EXCEPT !.seen = (fi.Name :> [info |-> fi, ambiguous |-> TRUE]) @@ @]
  ELSE acc

RECURSIVE Walk(_, _, _, _, _)
\* visits fields[i..] of the struct found at path, depth levels below the root
Walk(fields, i, path, depth, acc) ==
  IF i > Len(fields) THEN acc
  ELSE
    LET f == fields[i]
        fi == FieldInfo(ResolvedName(f), Append(path, i - 1), depth, f.embedded)
        listed == [acc EXCEPT !.index = Append(@, fi)]
    IN IF f.embedded
         THEN Walk(fields, i + 1, path, depth, Walk(f.fields, 1, fi.Path, depth + 1, listed))
         ELSE Walk(fields, i + 1, path, depth, Sight(listed, fi))

\* Lookup(type): every field visited (Index) and the unique names (Names)
Lookup(type) ==
  LET acc == Walk(type, 1, <<>>, 0, NothingSeen) IN
  [Index |-> acc.index,
   Names |-> [n \in {m \in DOMAIN acc.seen : ~acc.seen[m].ambiguous} |-> acc.seen[n].info]]

GetByPath(ti, name) == IF name \in DOMAIN ti.Names THEN ti.Names[name] ELSE Absent

\* ------------------------------------------------------- the types indexed
\* declared fields a, b, and a third one annotated with the name a
TaggedFields == {StructField("A", ""), StructField("B", ""), StructField("C", "a")}

\* Go rejects a struct that declares a name twice
Declarable(fields) == \A i, j \in DOMAIN fields : fields[i].decl = fields[j].decl => i = j

\* structs of one or two fields, none embedded
InnerStructs ==
  {<<f>> : f \in TaggedFields}
    \cup {s \in {<<f, g>> : f, g \in TaggedFields} : Declarable(s)}
\* structs that embed one of them, alone or after a field of their own
MiddleStructs ==
  {<<f>> : f \in TaggedFields}
    \cup {<<EmbeddedField("Foo", s)>> : s \in InnerStructs}
    \cup {<<f, EmbeddedField("Foo", s)>> : f \in TaggedFields, s \in InnerStructs}

\* what a root struct declares: a field, or an embedded struct type
RootFields ==
  TaggedFields
    \cup {EmbeddedField("Bar", s) : s \in MiddleStructs}
    \cup {EmbeddedField("Baz", s) : s \in InnerStructs}

StructTypes == {s \in SeqsUpTo(RootFields, MaxFields) : s # <<>> /\ Declarable(s)}

\* ------------------------------------------ the type-index cache (Mapper)
\* Mapper.TypeMap of internal/reflectx is modelled from its contract: a
\* double-checked lookup, the write lock taken on a miss only, the index
\* built apart and stored when complete.
Goroutines == 1..NumGoroutines

\* the record types the goroutines map
TypeNames == {"Baz", "FooExt"}
TypeShape(t) ==
  IF t = "Baz"
    THEN <<StructField("A", "a"),
           EmbeddedField("Bar", <<EmbeddedField("Foo", <<StructField("A", "a")>>),
                                  StructField("B", "b")>>)>>
    ELSE <<EmbeddedField("Foo", <<StructField("A", "a"), StructField("C", "")>>),
           StructField("B", "b")>>

NotCached == [present |-> FALSE, index |-> Lookup(<<>>)]
CacheEntry(ti) == [present |-> TRUE, index |-> ti]

Unlocked == [readers |-> {}, writer |-> 0]

\* a goroutine outside TypeMap
Idle == [pc |-> "idle", type |-> "", built |-> 0, mapping |-> NotCached, via |-> ""]

\* ------------------------------------------------------------------ state
\* --------------------------------------------- the table (LockForUpdates)
\* the workers are goroutines sharing one table of NumRecords rows
Workers == 1..NumGoroutines
RecordIDs == 1..NumRecords

\* a transaction: the one the table is bound to ("outer") or the one
\* pgx.BeginFunc opens ("new"), of worker w
Tx(w, kind) == [of |-> w, kind |-> kind]
NoTx == [of |-> 0, kind |-> "none"]

\* a row: whether its committed version matches the where-condition, and
\* the transaction holding its row lock
Row(pending) == [pending |-> pending, lockedBy |-> NoTx]

\* a call of LockForUpdates before it started; bound tells whether the table
\* is bound to a transaction (t.DB.Query.Tx != nil); updateFnCalls counts the
\* calls of updateFn and began the transactions pgx.BeginFunc has opened
IdleWorker(bound, limit) ==
  [pc |-> "idle", bound |-> bound, limit |-> limit, tx |-> NoTx, snapshot |-> {},
   pos |-> 0, records |-> {}, outerWrites |-> {}, newWrites |-> {}, outerOpen |-> bound,
   updateFnCalls |-> 0, began |-> 0]

NoLedger == [initial |-> {}, handed |-> {}, written |-> {}]

\* FOR UPDATE that takes a row whoever holds its lock
SkipLocked_Never(row, tx) == FALSE

\* FOR UPDATE SKIP LOCKED passes over a row another transaction has locked
SkipLocked(row, tx) == row.lockedBy # NoTx /\ row.lockedBy # tx

\* what a commit of tx leaves of the table: its writes become the committed
\* versions and its row locks are released
Committed(tbl, tx, writes) ==
  [r \in DOMAIN tbl |->
     [pending |-> IF r \in writes THEN FALSE ELSE tbl[r].pending,
      lockedBy |-> IF tbl[r].lockedBy = tx THEN NoTx ELSE tbl[r].lockedBy]]

\* ------------------------------------------------------- the table (Save)
chunkSize == 1000

\* a Table: its Name, its IDColumn and the transaction its queries run on
\* (DB.Query.Tx, "" when there is none)
Table(Name, IDColumn, tx) == [Name |-> Name, IDColumn |-> IDColumn, Tx |-> tx]
NoTableValue == Table("", "", "")
\* NewTable(db, name) for a record type whose GetIDColumn() returns idColumn
NewTable(name, idColumn) == Table(name, idColumn, "")
\* t.WithTx(tx)
WithTx(t, tx) == Table(t.Name, "", tx)
Tables == {NewTable("accounts", c) : c \in {"id", "account_id"}}

\* a record given to Save: a nil pointer, or a record with its GetID(), the
\* verdict of its Validate(), the optional interfaces its type implements
\* and its two timestamps
NilRecord == [nil |-> TRUE]
NewRecord(id, valid, hasSetCreatedAt, hasSetUpdatedAt) ==
  [nil |-> FALSE, id |-> id, valid |-> valid, hasSetCreatedAt |-> hasSetCreatedAt,
   hasSetUpdatedAt |-> hasSetUpdatedAt, createdAt |-> "zero", updatedAt |-> "zero"]

\* a call made on the records at the indices at, or a statement built from
\* them
Event(op, at) == [op |-> op, at |-> at]
\* UpdateRecord(record, sq.Eq{key: record.GetID()}, t.Name) for the record at i
UpdateRecord(key, i) == [op |-> "UpdateRecord", at |-> {i}, key |-> key]
SaveResult(err, events, records) == [err |-> err, events |-> events, records |-> records]

\* RETURNING * scanned back into the record: the new id, and the column
\* defaults of the timestamps left out of the statement
ScanReturning(r) ==
  [r EXCEPT !.id = 1,
            !.createdAt = IF @ = "zero" THEN "default" ELSE @,
            !.updatedAt = IF @ = "zero" THEN "default" ELSE @]

\* saveOne(record)
saveOne(t, record) ==
  IF record.nil THEN SaveResult("record is nil", <<>>, <<record>>)
  ELSE IF ~record.valid THEN SaveResult("validate record", <<>>, <<record>>)
  ELSE
    LET r1 == IF record.hasSetUpdatedAt THEN [record EXCEPT !.updatedAt = "now"] ELSE record
        ev == IF record.hasSetUpdatedAt THEN <<Event("SetUpdatedAt", {1})>> ELSE <<>> IN
    IF r1.id = 0
      THEN SaveResult("", ev \o <<Event("InsertRecord", {1})>>, <<ScanReturning(r1)>>)
      ELSE SaveResult("", ev \o <<UpdateRecord(t.IDColumn, 1)>>, <<r1>>)

RECURSIVE saveAllLoop(_, _, _, _)
RECURSIVE insertChunks(_, _, _)
RECURSIVE updateChunks(_, _, _)

\* saveAll: the chunks of insertRecords from start on, each one INSERT
insertChunks(acc, inserts, start) ==
  IF start > Len(inserts) THEN acc
  ELSE
    LET end == IF start + chunkSize - 1 > Len(inserts) THEN Len(inserts)
               ELSE start + chunkSize - 1
        chunk == {inserts[k] : k \in start..end} IN
    insertChunks(
      [acc EXCEPT !.events = Append(@, Event("InsertRecords", chunk)),
                  !.records = [i \in DOMAIN @ |-> IF i \in chunk THEN ScanReturning(@[i]) ELSE @[i]]],
      inserts, end + 1)

\* saveAll: the chunks of updateQueries from start on, each one batch
updateChunks(acc, updates, start) ==
  IF start > Len(updates) THEN acc
  ELSE
    LET end == IF start + chunkSize - 1 > Len(updates) THEN Len(updates)
               ELSE start + chunkSize - 1 IN
    updateChunks(
      [acc EXCEPT !.events = Append(@, Event("BatchExec", {updates[k] : k \in start..end}))],
      updates, end + 1)

\* saveAll without the call of SetCreatedAt
SetCreatedAt_Never(r, i) == [record |-> r, events |-> <<>>]

\* saveAll: the call of SetCreatedAt(now) on a record about to be inserted
SetCreatedAt(r, i) ==
  IF r.hasSetCreatedAt
    THEN [record |-> [r EXCEPT !.createdAt = "now"], events |-> <<Event("SetCreatedAt", {i})>>]
    ELSE [record |-> r, events |-> <<>>]

\* saveAll: the loop over records[i..]; acc holds the events so far, the
\* records as changed so far, insertIndices and the indices of updateQueries
saveAllLoop(t, records, i, acc) ==
  IF i > Len(records) THEN
    LET ins == insertChunks(acc, acc.inserts, 1)
        upd == updateChunks(ins, acc.updates, 1) IN
    SaveResult("", upd.events, upd.records)
  ELSE
    LET r == records[i] IN
    IF r.nil THEN SaveResult("record is nil", acc.events, acc.records)
    ELSE IF ~r.valid THEN SaveResult("validate record", acc.events, acc.records)
    ELSE
      LET r1 == IF r.hasSetUpdatedAt THEN [r EXCEPT !.updatedAt = "now"] ELSE r
          ev1 == IF r.hasSetUpdatedAt THEN <<Event("SetUpdatedAt", {i})>> ELSE <<>> IN
      IF r1.id = 0 THEN
        LET c == SetCreatedAt(r1, i) IN
        saveAllLoop(t, records, i + 1,
          [acc EXCEPT !.events = @ \o ev1 \o c.events,
                      !.records = [@ EXCEPT ![i] = c.record],
                      !.inserts = Append(@, i)])
      ELSE
        saveAllLoop(t, records, i + 1,
          [acc EXCEPT !.events = @ \o ev1 \o <<UpdateRecord("id", i)>>,
                      !.records = [@ EXCEPT ![i] = r1],
                      !.updates = Append(@, i)])

saveAll(t, records) ==
  saveAllLoop(t, records, 1, [events |-> <<>>, records |-> records, inserts |-> <<>>, updates |-> <<>>])

\* Save(ctx, records...)
Save(t, records) ==
  IF Len(records) = 0 THEN SaveResult("", <<>>, records)
  ELSE IF Len(records) = 1 THEN saveOne(t, records[1])
  ELSE saveAll(t, records)

\* the records of one type: whether it implements SetCreatedAt and
\* SetUpdatedAt is the same for all of them
RecordsOfType(c, u) ==
  {NilRecord} \cup {NewRecord(id, valid, c, u) : id \in {0, 1}, valid \in BOOLEAN}
Batches ==
  UNION {UNION {[1..k -> RecordsOfType(c, u)] : k \in 0..MaxParams} : c, u \in BOOLEAN}

Saved(r, t) ==
  [err |-> r.err, events |-> r.events, records |-> r.records, done |-> TRUE, on |-> t]
NotSaved ==
  [err |-> "", events |-> <<>>, records |-> <<>>, done |-> FALSE, on |-> NoTableValue]

\* ------------------------------------------------------------------ RawSQL
\* a query text is a sequence of characters; '?' is the placeholder
RawSQL(Query, Args, statement, err) ==
  [Query |-> Query, Args |-> Args, statement |-> statement, err |-> err]

\* strings.Count(query, "?")
CountPlaceholders(query) == Cardinality({i \in DOMAIN query : query[i] = "?"})

RECURSIVE SplitFrom(_, _, _, _)
\* strings.Split(s, sep) from position i on, cur the part being read
SplitFrom(s, sep, i, cur) ==
  IF i > Len(s) THEN <<cur>>
  ELSE IF s[i] = sep THEN <<cur>> \o SplitFrom(s, sep, i + 1, <<>>)
  ELSE SplitFrom(s, sep, i + 1, Append(cur, s[i]))
Split(s, sep) == SplitFrom(s, sep, 1, <<>>)

RECURSIVE Decimal(_)
\* fmt.Sprintf("%d", k) for k >= 0
Decimal(k) ==
  LET digit == <<"0", "1", "2", "3", "4", "5", "6", "7", "8", "9">> IN
  IF k < 10 THEN <<digit[k + 1]>> ELSE Decimal(k \div 10) \o <<digit[(k % 10) + 1]>>
\* fmt.Sprintf("$%d", k)
Dollar(k) == <<"$">> \o Decimal(k)

PrepareResultOf(q, n, err) == [q |-> q, n |-> n, err |-> err]

RECURSIVE PrepareLoop(_, _, _, _)
\* RawSQL.Prepare: the loop over parts[i..] (i counts from 0), q the buffer
PrepareLoop(parts, i, n, q) ==
  IF i >= Len(parts) THEN q
  ELSE IF parts[i + 1] = <<>> THEN PrepareLoop(parts, i + 1, n, q)
  ELSE PrepareLoop(parts, i + 1, n,
         q \o parts[i + 1] \o (IF i < n THEN Dollar(i + 1) ELSE <<>>))

\* RawSQL.Prepare(query)
RawSQLPrepare(r, query) ==
  IF query = <<>> THEN PrepareResultOf(<<>>, 0, "pgkit: empty query")
  ELSE
    LET n == CountPlaceholders(query) IN
    IF ~r.statement /\ n # Len(r.Args)
      THEN PrepareResultOf(<<>>, 0, "pgkit: expecting n args but received m")
      ELSE PrepareResultOf(PrepareLoop(Split(query, "?"), 0, n, <<>>), n, "")

RawResult(sql, args, err) == [sql |-> sql, args |-> args, err |-> err]

\* RawSQL.ToSql()
RawSQLToSql(r) ==
  IF r.Query = <<>> THEN RawResult(<<>>, <<>>, "pgkit: empty query called with ToSql")
  ELSE IF r.err # "" THEN RawResult(<<>>, <<>>, r.err)
  ELSE IF r.statement THEN RawResult(r.Query, r.Args, "")
  ELSE IF Len(r.Args) = 0 THEN RawResult(r.Query, r.Args, "")
  ELSE
    LET p == RawSQLPrepare(r, r.Query) IN
    IF p.err # "" THEN RawResult(<<>>, <<>>, p.err) ELSE RawResult(p.q, r.Args, "")

\* queries of up to MaxQuery characters, and argument lists 1, 2, ..
QueryTexts == UNION {[1..k -> {"?", "a", ","}] : k \in 0..MaxQuery}
ArgLists == {[i \in 1..k |-> i] : k \in 0..(MaxQuery + 1)}
RawSQLs ==
  {RawSQL(q, a, st, e) : q \in QueryTexts, a \in ArgLists, st \in BOOLEAN,
                         e \in {"", "pgkit: build error"}}

\* ------------------------------------------------------------------ Page
DefaultPageSize == 10
MaxPageSize == 50

\* uint32(x) and uint64(x), in words of WordBits and 2 * WordBits bits
Uint32(x) == x % (2 ^ WordBits)
Uint64(x) == x % (2 ^ (2 * WordBits))

Desc == <<"D", "E", "S", "C">>
Asc == <<"A", "S", "C">>
SortBy(Column, Order) == [Column |-> Column, Order |-> Order]
Page(Size, Number, More, Column, SortList) ==
  [nil |-> FALSE, Size |-> Size, Page |-> Number, More |-> More,
   Column |-> Column, Sort |-> SortList]
\* &Page{} and a nil *Page
ZeroPage == Page(0, 0, FALSE, <<>>, <<>>)
NilPage == [ZeroPage EXCEPT !.nil = TRUE]

LowerCase == <<"a", "c", "d", "e", "i", "n", "s">>
UpperCase == <<"A", "C", "D", "E", "I", "N", "S">>
Letters == {LowerCase[k] : k \in DOMAIN LowerCase} \cup {UpperCase[k] : k \in DOMAIN UpperCase}
\* strings.ToUpper, strings.ToLower
ToUpper(s) ==
  [i \in DOMAIN s |->
     IF \E k \in DOMAIN LowerCase : LowerCase[k] = s[i]
       THEN UpperCase[CHOOSE k \in DOMAIN LowerCase : LowerCase[k] = s[i]] ELSE s[i]]
ToLower(s) ==
  [i \in DOMAIN s |->
     IF \E k \in DOMAIN UpperCase : UpperCase[k] = s[i]
       THEN LowerCase[CHOOSE k \in DOMAIN UpperCase : UpperCase[k] = s[i]] ELSE s[i]]

RECURSIVE TrimLeft(_)
TrimLeft(s) == IF s # <<>> /\ Head(s) = " " THEN TrimLeft(Tail(s)) ELSE s
RECURSIVE TrimRight(_)
TrimRight(s) ==
  IF s # <<>> /\ s[Len(s)] = " " THEN TrimRight(SubSeq(s, 1, Len(s) - 1)) ELSE s
\* strings.TrimSpace
TrimSpace(s) == TrimRight(TrimLeft(s))

RECURSIVE QuoteDoubled(_)
\* strings.ReplaceAll(part, `"`, `""`)
QuoteDoubled(s) ==
  IF s = <<>> THEN <<>>
  ELSE (IF Head(s) = "\"" THEN <<"\"", "\"">> ELSE <<Head(s)>>) \o QuoteDoubled(Tail(s))
RECURSIVE SanitizeParts(_)
SanitizeParts(parts) ==
  LET quoted == <<"\"">> \o QuoteDoubled(Head(parts)) \o <<"\"">> IN
  IF Len(parts) = 1 THEN quoted ELSE quoted \o <<".">> \o SanitizeParts(Tail(parts))
\* pgx.Identifier(strings.Split(column, ".")).Sanitize()
Sanitize(column) == SanitizeParts(Split(column, "."))

\* the ColumnFunc of the settings: nil or strings.ToLower
ColumnFuncs == {"nil", "ToLower"}
ApplyColumnFunc(f, column) == IF f = "ToLower" THEN ToLower(column) ELSE column

\* sanitizeOrder, and the switch of Sort.sanitize
sanitizeOrder(order) ==
  LET o == ToUpper(TrimSpace(order)) IN
  IF o = Desc THEN Desc ELSE Asc

\* Sort.sanitize(columnFunc)
sanitize(sort, columnFunc) ==
  LET column == TrimSpace(sort.Column) IN
  SortBy(IF column # <<>> THEN Sanitize(ApplyColumnFunc(columnFunc, column)) ELSE column,
         sanitizeOrder(sort.Order))

\* NewSort(s): the sort and whether the string named one
NewSort(str) ==
  LET t == TrimSpace(str) IN
  IF t = <<>> \/ ~(\E i \in DOMAIN t : t[i] \in Letters)
    THEN [sort |-> SortBy(<<>>, <<>>), ok |-> FALSE]
    ELSE IF Head(t) = "-" THEN [sort |-> SortBy(Tail(t), Desc), ok |-> TRUE]
    ELSE [sort |-> SortBy(t, Asc), ok |-> TRUE]

RECURSIVE NewSorts(_)
\* the sorts of the strings of a list that name one
NewSorts(list) ==
  IF list = <<>> THEN <<>>
  ELSE (IF NewSort(Head(list)).ok THEN <<NewSort(Head(list)).sort>> ELSE <<>>)
       \o NewSorts(Tail(list))

\* the settings; `configured` remembers the options NewPaginator was given
PaginatorSettings(DefaultSize, MaxSize, SortList, ColumnFunc, version, configured) ==
  [DefaultSize |-> DefaultSize, MaxSize |-> MaxSize, Sort |-> SortList,
   ColumnFunc |-> ColumnFunc, version |-> version, configured |-> configured]

\* an option given or not is a set of at most one value
OptionOr(option, default) == IF option = {} THEN default ELSE CHOOSE v \in option : TRUE

\* NewPaginator(WithDefaultSize(..), WithMaxSize(..), WithSort(..), WithColumnFunc(..))
NewPaginator(withDefaultSize, withMaxSize, withSort, withColumnFunc, version) ==
  LET d == OptionOr(withDefaultSize, DefaultPageSize)
      m == OptionOr(withMaxSize, MaxPageSize)
  IN PaginatorSettings(d, IF m < d THEN d ELSE m, withSort, withColumnFunc, version,
                       [DefaultSize |-> withDefaultSize, MaxSize |-> withMaxSize])

\* Page.SetDefaults(o) without the cap at o.MaxSize
SetDefaults_NoMax(p, o) ==
  [p EXCEPT !.Size = IF p.Size = 0 THEN o.DefaultSize ELSE p.Size,
            !.Page = IF p.Page = 0 THEN 1 ELSE p.Page]

\* Page.SetDefaults(o)
SetDefaults(p, o) ==
  LET size == IF p.Size = 0 THEN o.DefaultSize ELSE p.Size IN
  [p EXCEPT !.Size = IF size > o.MaxSize THEN o.MaxSize ELSE size,
            !.Page = IF p.Page = 0 THEN 1 ELSE p.Page]

\* Page.Limit()
Limit(p) == IF ~p.nil /\ p.Size # 0 THEN p.Size ELSE DefaultPageSize
\* Page.Offset()
Offset(p) ==
  LET n == IF ~p.nil /\ p.Page # 0 THEN p.Page ELSE 1 IN
  Uint64((n - 1) * Limit(p))

\* Page.GetOrder(columnFunc, defaultSort...): the order and the page's Sort
GetOrder(p, columnFunc, defaultSort) ==
  LET fromSort == IF ~p.nil /\ Len(p.Sort) # 0 THEN p.Sort ELSE <<>>
      fromColumn == IF Len(fromSort) = 0 /\ ~p.nil /\ p.Column # <<>>
                      THEN NewSorts(Split(p.Column, ",")) ELSE fromSort
      sorts == IF Len(fromColumn) = 0 THEN NewSorts(defaultSort) ELSE fromColumn
  IN [sorts |-> [i \in DOMAIN sorts |-> sanitize(sorts[i], columnFunc)],
      Sort |-> p.Sort]

\* Page.GetOrder(defaultSort...) of the earlier version, which writes the
\* sanitized element back into p.Sort
GetOrderEarlier(p, defaultSort) ==
  IF ~p.nil /\ Len(p.Sort) # 0
    THEN LET written == [i \in DOMAIN p.Sort |->
                           SortBy(Sanitize(TrimSpace(p.Sort[i].Column)),
                                  sanitizeOrder(p.Sort[i].Order))]
         IN [sorts |-> written, Sort |-> written]
  ELSE IF p.nil \/ p.Column = <<>>
    THEN [sorts |-> NewSorts(defaultSort), Sort |-> p.Sort]
  ELSE LET named == NewSorts(Split(p.Column, ",")) IN
       [sorts |-> [i \in DOMAIN named |->
                     SortBy(Sanitize(named[i].Column), named[i].Order)],
        Sort |-> p.Sort]

\* Sort.String() of the earlier version
SortString(sort) ==
  IF sort.Column = <<>> THEN <<>>
  ELSE sort.Column \o <<" ">> \o sanitizeOrder(sort.Order)

\* Paginator.getOrder(page): the ORDER BY list and the page's Sort afterwards
getOrder(settings, p) ==
  IF settings.version = "earlier"
    THEN LET o == GetOrderEarlier(p, settings.Sort) IN
         [list |-> [i \in DOMAIN o.sorts |->
                      SortString([o.sorts[i] EXCEPT
                        !.Column = ApplyColumnFunc(settings.ColumnFunc, @)])],
          Sort |-> o.Sort]
    ELSE LET o == GetOrder(p, settings.ColumnFunc, settings.Sort) IN
         [list |-> [i \in DOMAIN o.sorts |->
                      o.sorts[i].Column \o <<" ">> \o o.sorts[i].Order],
          Sort |-> o.Sort]

Query(limit, offset, orderBy, pc, pageArg) ==
  [limit |-> limit, offset |-> offset, orderBy |-> orderBy, pc |-> pc,
   pageArg |-> pageArg]

\* Paginator.PrepareQuery(q, page): the caller's page afterwards and the
\* LIMIT, OFFSET and ORDER BY set on q
PrepareQuery(settings, pageArg) ==
  LET p == SetDefaults(IF pageArg.nil THEN ZeroPage ELSE pageArg, settings)
      order == getOrder(settings, p)
  IN [page |-> IF pageArg.nil THEN pageArg ELSE [p EXCEPT !.Sort = order.Sort],
      limit |-> Uint64(Limit(p) + 1), offset |-> Offset(p), orderBy |-> order.list]

Rows(r) == [i \in 1..r |-> i]
Fetched(rows, returned, pageArg) ==
  [rows |-> rows, returned |-> returned, pageArg |-> pageArg]

\* page.More = len(result) > limit
MoreThan_OrEqual(rows, limit) == Len(rows) >= limit
MoreThan(rows, limit) == Len(rows) > limit

\* Paginator.PrepareResult(result, page): the rows returned and the page
PrepareResult(rows, p) ==
  LET limit == Limit(p)
      more == MoreThan(rows, limit)
      sized == [p EXCEPT !.More = more, !.Size = Uint32(limit)]
  IN [rows |-> IF more THEN SubSeq(rows, 1, limit) ELSE rows,
      page |-> [sized EXCEPT
                  !.Page = Uint32(1 + (Uint32(Offset(sized)) \div Uint32(limit)))]]

\* the inputs: options, pages, sorts
SizeOptions == {{}, {0}, {5}, {2 ^ WordBits - 4}}
PageSizes == {0, 2, 7, 2 ^ WordBits - 1}
PageNumbers == {0, 1, 3, 2 ^ (WordBits - 1) + 1, 2 ^ WordBits - 1}
SortLists ==
  {<<>>, <<SortBy(<<" ", "I", "D">>, <<"d", "e", "s", "c">>)>>,
   <<SortBy(<<"n", ".", "I">>, Asc), SortBy(<<"I", "\"">>, <<" ", "x">>)>>}
PageColumns == {<<>>, <<"-", "I", "D", ",", " ", "n">>}
DefaultSorts == {<<>>, << <<"I", "D">> >>}
Paginators ==
  {NewPaginator(d, m, st, f, v) : d \in SizeOptions, m \in SizeOptions,
     st \in DefaultSorts, f \in ColumnFuncs, v \in {"current", "earlier"}}
Pages ==
  {NilPage} \cup {Page(sz, n, FALSE, c, st) : sz \in PageSizes, n \in PageNumbers,
                                              c \in PageColumns, st \in SortLists}

NoRawSQL == RawSQL(<<>>, <<>>, FALSE, "")
NoPaginator ==
  PaginatorSettings(0, 0, <<>>, "nil", "current", [DefaultSize |-> {}, MaxSize |-> {}])
NoPageValue == NilPage
NoQuery == Query(0, 0, <<>>, "idle", NilPage)
NoRows == Fetched(<<>>, <<>>, NilPage)
NotPrepared == [sql |-> <<>>, args |-> <<>>, err |-> "", n |-> 0, by |-> ""]

VARIABLES expr, compiled, record, options, order, mapped, structType, typeIndex,
          cache, mutex, calls, writes, table, work, ledger, batch, saved,
          rawSQL, prepared, paginator, page, selectQuery, result, receiver, txTable

vars ==
  <<expr, compiled, record, options, order, mapped, structType, typeIndex,
    cache, mutex, calls, writes, table, work, ledger, batch, saved,
    rawSQL, prepared, paginator, page, selectQuery, result, receiver, txTable>>
condVars == <<expr, compiled>>
mapVars == <<record, options, order, mapped>>
indexVars == <<structType, typeIndex>>
cacheVars == <<cache, mutex, calls, writes>>
lockVars == <<table, work, ledger>>
saveVars == <<batch, saved>>
tableVars == <<lockVars, saveVars>>
rawVars == <<rawSQL, prepared>>
pageVars == <<paginator, page, selectQuery, result>>
withTxVars == <<receiver, txTable>>
restVars == <<rawVars, pageVars, withTxVars>>

NotCompiled == [sql |-> Empty, args |-> <<>>, bind |-> <<>>, err |-> <<>>, done |-> FALSE]
Done(r) == [sql |-> r.sql, args |-> r.args, bind |-> r.bind, err |-> r.err, done |-> TRUE]

NotMapped ==
  [names |-> <<>>, values |-> <<>>, cols |-> <<>>, err |-> "", panicked |-> FALSE,
   done |-> FALSE, by |-> ""]
Mapped(r, by) ==
  [names |-> r.names, values |-> r.values, cols |-> r.cols, err |-> r.err,
   panicked |-> r.panicked, done |-> TRUE, by |-> by]

NoCond ==
  /\ expr = Cond(<<>>)
  /\ compiled = NotCompiled

NoRecord ==
  /\ record = UntypedNil
  /\ options = NilOptions
  /\ order = <<>>
  /\ mapped = NotMapped

NotIndexed == [Index |-> <<>>, Names |-> <<>>, done |-> FALSE]
Indexed(ti) == [Index |-> ti.Index, Names |-> ti.Names, done |-> TRUE]

NoType ==
  /\ structType = <<>>
  /\ typeIndex = NotIndexed

\* the cache shared by the goroutines
InitCache ==
  /\ cache = [t \in TypeNames |-> NotCached]
  /\ mutex = Unlocked
  /\ calls = [g \in Goroutines |-> Idle]
  /\ writes = [t \in TypeNames |-> 0]

\* no RawSQL compiled, no page prepared, no table bound to a transaction
NoRaw ==
  /\ rawSQL = NoRawSQL
  /\ prepared = NotPrepared
NoPage ==
  /\ paginator = NoPaginator
  /\ page = NoPageValue
  /\ selectQuery = NoQuery
  /\ result = NoRows
NoWithTx ==
  /\ receiver = NoTableValue
  /\ txTable = NoTableValue
NoRest ==
  /\ NoRaw
  /\ NoPage
  /\ NoWithTx

\* no table in use, no Save called
NoTable ==
  /\ table = [r \in RecordIDs |-> Row(FALSE)]
  /\ work = [w \in Workers |-> IdleWorker(FALSE, 1)]
  /\ ledger = NoLedger
  /\ batch = <<>>
  /\ saved = NotSaved

\* the condition compiler
Init ==
  /\ expr \in Exprs
  /\ compiled = NotCompiled
  /\ NoRecord
  /\ NoType
  /\ InitCache
  /\ NoTable
  /\ NoRest

\* a call of expr.ToSql()
Compile ==
  /\ ~compiled.done
  /\ compiled' = Done(ToSql(expr))
  /\ expr' = AfterToSql(expr)
  /\ UNCHANGED <<mapVars, indexVars, cacheVars, tableVars, restVars>>

Next == Compile

Spec == Init /\ [][Next]_vars

\* IN / NOT IN over tuples, by In, NotIn and InMultiple and by the In and
\* NotIn of the later version
InitTuples ==
  /\ expr \in TupleExprs
  /\ compiled = NotCompiled
  /\ NoRecord
  /\ NoType
  /\ InitCache
  /\ NoTable
  /\ NoRest

SpecTuples == InitTuples /\ [][Next]_vars

\* expressions over Raw fragments whose arguments are a caller's slice
InitFrame ==
  /\ expr \in FrameExprs
  /\ compiled = NotCompiled
  /\ NoRecord
  /\ NoType
  /\ InitCache
  /\ NoTable
  /\ NoRest

SpecFrame == InitFrame /\ [][Next]_vars

\* the record mapper
InitMap ==
  /\ record \in Records
  /\ options \in OptionValues
  /\ order \in Orderings(Entries(record))
  /\ mapped = NotMapped
  /\ NoCond
  /\ NoType
  /\ InitCache
  /\ NoTable
  /\ NoRest

\* a call of MapWithOptions(record, options)
CallMapWithOptions ==
  /\ ~mapped.done
  /\ mapped' = Mapped(MapWithOptions(record, options, order), "MapWithOptions")
  /\ UNCHANGED <<record, options, order, condVars, indexVars, cacheVars, tableVars, restVars>>

\* a call of the earlier Map(item, options)
CallMap ==
  /\ ~mapped.done
  /\ mapped' = Mapped(Map(record, options, order), "Map")
  /\ UNCHANGED <<record, options, order, condVars, indexVars, cacheVars, tableVars, restVars>>

NextMap == CallMapWithOptions \/ CallMap

SpecMap == InitMap /\ [][NextMap]_vars

\* the type indexer
InitIndex ==
  /\ structType \in StructTypes
  /\ typeIndex = NotIndexed
  /\ NoCond
  /\ NoRecord
  /\ InitCache
  /\ NoTable
  /\ NoRest

\* a call of Lookup(structType)
CallLookup ==
  /\ ~typeIndex.done
  /\ typeIndex' = Indexed(Lookup(structType))
  /\ UNCHANGED <<structType, condVars, mapVars, cacheVars, tableVars, restVars>>

NextIndex == CallLookup

SpecIndex == InitIndex /\ [][NextIndex]_vars

InitTypeMap ==
  /\ InitCache
  /\ NoTable
  /\ NoRest
  /\ NoCond
  /\ NoRecord
  /\ NoType

\* goroutine g enters TypeMap(t)
Call(g) ==
  /\ calls[g].pc = "idle"
  /\ \E t \in TypeNames : calls' = [calls EXCEPT ![g] = [Idle EXCEPT !.pc = "rlock", !.type = t]]
  /\ UNCHANGED <<cache, mutex, writes>>

\* mutex.RLock(): waits while a writer holds the lock
RLock(g) ==
  /\ calls[g].pc = "rlock"
  /\ mutex.writer = 0
  /\ mutex' = [mutex EXCEPT !.readers = @ \cup {g}]
  /\ calls' = [calls EXCEPT ![g].pc = "read"]
  /\ UNCHANGED <<cache, writes>>

\* mapping, ok := cache[t] under the read lock
Read(g) ==
  /\ calls[g].pc = "read"
  /\ calls' = [calls EXCEPT ![g].pc = "runlock", ![g].mapping = cache[calls[g].type],
                            ![g].via = IF cache[calls[g].type].present THEN "read" ELSE ""]
  /\ UNCHANGED <<cache, mutex, writes>>

\* mutex.RUnlock(): a hit returns, a miss goes on to the write lock
RUnlock(g) ==
  /\ calls[g].pc = "runlock"
  /\ mutex' = [mutex EXCEPT !.readers = @ \ {g}]
  /\ calls' = [calls EXCEPT ![g].pc = IF calls[g].mapping.present THEN "return" ELSE "lock"]
  /\ UNCHANGED <<cache, writes>>

\* mutex.Lock(): waits for the readers and the writer to leave
Lock(g) ==
  /\ calls[g].pc = "lock"
  /\ mutex.writer = 0
  /\ mutex.readers = {}
  /\ mutex' = [mutex EXCEPT !.writer = g]
  /\ calls' = [calls EXCEPT ![g].pc = "recheck"]
  /\ UNCHANGED <<cache, writes>>

\* the second check, under the write lock
RecheckHit_Never(g) == FALSE
RecheckHit(g) == cache[calls[g].type].present

Recheck(g) ==
  /\ calls[g].pc = "recheck"
  /\ calls' = [calls EXCEPT ![g] =
                 IF RecheckHit(g)
                   THEN [@ EXCEPT !.pc = "unlock", !.mapping = cache[calls[g].type], !.via = "recheck"]
                   ELSE [@ EXCEPT !.pc = "build"]]
  /\ UNCHANGED <<cache, mutex, writes>>

\* the index is built in a value of the goroutine, one declared field of
\* the type after the other
Build(g) ==
  /\ calls[g].pc = "build"
  /\ calls[g].built < Len(TypeShape(calls[g].type))
  /\ calls' = [calls EXCEPT ![g].built = @ + 1,
                            ![g].mapping = CacheEntry(Lookup(SubSeq(TypeShape(calls[g].type), 1, calls[g].built + 1)))]
  /\ UNCHANGED <<cache, mutex, writes>>

\* cache[t] = mapping, once the index is complete
Publish(g) ==
  /\ calls[g].pc = "build"
  /\ calls[g].built = Len(TypeShape(calls[g].type))
  /\ cache' = [cache EXCEPT ![calls[g].type] = calls[g].mapping]
  /\ writes' = [writes EXCEPT ![calls[g].type] = @ + 1]
  /\ calls' = [calls EXCEPT ![g].pc = "unlock", ![g].via = "build"]
  /\ UNCHANGED mutex

\* mutex.Unlock()
Unlock(g) ==
  /\ calls[g].pc = "unlock"
  /\ mutex' = [mutex EXCEPT !.writer = 0]
  /\ calls' = [calls EXCEPT ![g].pc = "return"]
  /\ UNCHANGED <<cache, writes>>

\* TypeMap returns the mapping to its caller
Return(g) ==
  /\ calls[g].pc = "return"
  /\ calls' = [calls EXCEPT ![g] = Idle]
  /\ UNCHANGED <<cache, mutex, writes>>

Step(g) ==
  \/ Call(g) \/ RLock(g) \/ Read(g) \/ RUnlock(g) \/ Lock(g)
  \/ Recheck(g) \/ Build(g) \/ Publish(g) \/ Unlock(g) \/ Return(g)

NextTypeMap == (\E g \in Goroutines : Step(g)) /\ UNCHANGED <<condVars, mapVars, indexVars, tableVars, restVars>>

SpecTypeMap == InitTypeMap /\ [][NextTypeMap]_vars

\* the table: workers calling LockForUpdates with the same where-condition;
\* every row matches it, or every row but the first; the first worker may
\* have its table bound to a transaction
InitLock ==
  /\ \E matching \in {RecordIDs, RecordIDs \ {1}} :
       /\ table = [r \in RecordIDs |-> Row(r \in matching)]
       /\ ledger = [initial |-> matching, handed |-> {}, written |-> {}]
  /\ work \in [Workers -> {IdleWorker(b, l) : b \in BOOLEAN, l \in {1, MaxLimit}}]
  /\ \A w \in Workers : work[w].bound => w = 1
  /\ batch = <<>>
  /\ saved = NotSaved
  /\ NoCond
  /\ NoRecord
  /\ NoType
  /\ InitCache
  /\ NoRest

\* worker w enters LockForUpdates: a bound table runs the work in its own
\* transaction first, any other goes to pgx.BeginFunc, which opens one
CallLockForUpdates(w) ==
  /\ work[w].pc = "idle"
  /\ work' = [work EXCEPT ![w].pc = "select",
                          ![w].tx = IF work[w].bound THEN Tx(w, "outer") ELSE Tx(w, "new"),
                          ![w].began = IF work[w].bound THEN 0 ELSE 1]
  /\ UNCHANGED <<table, ledger>>

\* the SELECT ... FOR UPDATE SKIP LOCKED statement starts: it sees the rows
\* whose committed version matches the condition
SelectForUpdate(w) ==
  /\ work[w].pc = "select"
  /\ work' = [work EXCEPT ![w].pc = "locking",
                          ![w].snapshot = {r \in RecordIDs : table[r].pending},
                          ![w].pos = 0, ![w].records = {}]
  /\ UNCHANGED <<table, ledger>>

\* the rows of the snapshot the statement has still to look at
Ahead(w) == {r \in work[w].snapshot : r > work[w].pos}
\* the statement has its LIMIT of rows or has run out of rows
ScanDone(w) == Cardinality(work[w].records) >= work[w].limit \/ Ahead(w) = {}

\* the statement comes to its next row in ORDER BY id: a row locked by
\* another transaction is passed over, any other row is locked and returned
\* when its newest committed version still matches
LockRow(w) ==
  /\ work[w].pc = "locking"
  /\ ~ScanDone(w)
  /\ LET r == CHOOSE x \in Ahead(w) : \A y \in Ahead(w) : x <= y IN
       IF SkipLocked(table[r], work[w].tx)
         THEN /\ work' = [work EXCEPT ![w].pos = r]
              /\ UNCHANGED table
         ELSE /\ table' = [table EXCEPT ![r].lockedBy = work[w].tx]
              /\ work' = [work EXCEPT ![w].pos = r,
                             ![w].records = IF table[r].pending THEN @ \cup {r} ELSE @]
  /\ UNCHANGED ledger

\* GetAll has returned the rows: updateFn(records) is called, then the loop
\* of UpdateRecord writes them in the transaction of the call; a bound call
\* then goes on to pgx.BeginFunc and a second statement
UpdateFn(w) ==
  /\ work[w].pc = "locking"
  /\ ScanDone(w)
  /\ work' = [work EXCEPT
       ![w].pc = IF work[w].tx.kind = "outer" THEN "select" ELSE "commit",
       ![w].tx = Tx(w, "new"),
       ![w].updateFnCalls = @ + 1,
       ![w].began = IF work[w].tx.kind = "outer" THEN @ + 1 ELSE @,
       ![w].outerWrites = IF work[w].tx.kind = "outer" THEN @ \cup work[w].records ELSE @,
       ![w].newWrites = IF work[w].tx.kind = "new" THEN @ \cup work[w].records ELSE @]
  /\ ledger' = [ledger EXCEPT
       !.handed = @ \cup {[rec |-> r, by |-> w, locked |-> table[r].lockedBy] :
                            r \in work[w].records},
       !.written = @ \cup {[rec |-> r, tx |-> work[w].tx] : r \in work[w].records}]
  /\ UNCHANGED table

\* pgx.BeginFunc commits and LockForUpdates returns
CommitTx(w) ==
  /\ work[w].pc = "commit"
  /\ table' = Committed(table, work[w].tx, work[w].newWrites)
  /\ work' = [work EXCEPT ![w].pc = "returned", ![w].tx = NoTx, ![w].snapshot = {},
                          ![w].pos = 0, ![w].records = {}, ![w].newWrites = {}]
  /\ UNCHANGED ledger

\* the caller of a bound table commits its transaction after the call
CommitOuterTx(w) ==
  /\ work[w].pc = "returned"
  /\ work[w].outerOpen
  /\ table' = Committed(table, Tx(w, "outer"), work[w].outerWrites)
  /\ work' = [work EXCEPT ![w].outerOpen = FALSE, ![w].outerWrites = {}]
  /\ UNCHANGED ledger

WorkerStep(w) ==
  \/ CallLockForUpdates(w) \/ SelectForUpdate(w) \/ LockRow(w)
  \/ UpdateFn(w) \/ CommitTx(w) \/ CommitOuterTx(w)

NextLock ==
  (\E w \in Workers : WorkerStep(w))
    /\ UNCHANGED <<condVars, mapVars, indexVars, cacheVars, saveVars, restVars>>

SpecLock == InitLock /\ [][NextLock]_vars

\* the table: a call of Save
InitSave ==
  /\ batch \in Batches
  /\ saved = NotSaved
  /\ receiver \in Tables
  /\ txTable = NoTableValue
  /\ table = [r \in RecordIDs |-> Row(FALSE)]
  /\ work = [w \in Workers |-> IdleWorker(FALSE, 1)]
  /\ ledger = NoLedger
  /\ NoCond
  /\ NoRecord
  /\ NoType
  /\ InitCache
  /\ NoRaw
  /\ NoPage

\* tx := ...; t.WithTx(tx)
CallWithTx ==
  /\ txTable = NoTableValue
  /\ ~saved.done
  /\ txTable' = WithTx(receiver, "tx")
  /\ UNCHANGED <<receiver, batch, saved, lockVars, condVars, mapVars, indexVars,
                 cacheVars, rawVars, pageVars>>

\* a call of Save(ctx, batch...) on the table, or on the table bound to the
\* transaction
CallSave ==
  /\ ~saved.done
  /\ \E t \in {receiver, txTable} \ {NoTableValue} : saved' = Saved(Save(t, batch), t)
  /\ UNCHANGED <<batch, lockVars, condVars, mapVars, indexVars, cacheVars,
                 rawVars, pageVars, withTxVars>>

NextSave == CallSave \/ CallWithTx

SpecSave == InitSave /\ [][NextSave]_vars

\* ------------------------------------------------------- RawSQL: behaviour
InitRaw ==
  /\ rawSQL \in RawSQLs
  /\ prepared = NotPrepared
  /\ NoCond
  /\ NoRecord
  /\ NoType
  /\ InitCache
  /\ NoTable
  /\ NoPage
  /\ NoWithTx

\* r.ToSql()
CallRawToSql ==
  /\ prepared.by = ""
  /\ LET res == RawSQLToSql(rawSQL) IN
       prepared' = [sql |-> res.sql, args |-> res.args, err |-> res.err,
                    n |-> 0, by |-> "ToSql"]
  /\ UNCHANGED <<rawSQL, condVars, mapVars, indexVars, cacheVars, tableVars,
                 pageVars, withTxVars>>

\* r.Prepare(r.Query)
CallRawPrepare ==
  /\ prepared.by = ""
  /\ LET res == RawSQLPrepare(rawSQL, rawSQL.Query) IN
       prepared' = [sql |-> res.q, args |-> <<>>, err |-> res.err,
                    n |-> res.n, by |-> "Prepare"]
  /\ UNCHANGED <<rawSQL, condVars, mapVars, indexVars, cacheVars, tableVars,
                 pageVars, withTxVars>>

NextRaw == CallRawToSql \/ CallRawPrepare
SpecRaw == InitRaw /\ [][NextRaw]_vars

\* ---------------------------------------------------- Paginator: behaviour
InitPage ==
  /\ paginator \in Paginators
  /\ page \in Pages
  /\ selectQuery = Query(0, 0, <<>>, "new", NilPage)
  /\ result = NoRows
  /\ NoCond
  /\ NoRecord
  /\ NoType
  /\ InitCache
  /\ NoTable
  /\ NoRaw
  /\ NoWithTx

\* paginator.PrepareQuery(q, page)
CallPrepareQuery ==
  /\ selectQuery.pc = "new"
  /\ LET out == PrepareQuery(paginator, page) IN
       /\ page' = out.page
       /\ selectQuery' = Query(out.limit, out.offset, out.orderBy, "queried", page)
  /\ result' = NoRows
  /\ UNCHANGED <<paginator, condVars, mapVars, indexVars, cacheVars, tableVars,
                 rawVars, withTxVars>>

\* the rows of the result: what the limited query returned, or a result the
\* caller got in another way
Scan ==
  /\ selectQuery.pc \in {"new", "queried"}
  /\ \E r \in 0..MaxRows :
       /\ selectQuery.pc = "queried" => r <= selectQuery.limit
       /\ result' = Fetched(Rows(r), <<>>, NilPage)
  /\ selectQuery' = [selectQuery EXCEPT !.pc = "fetched"]
  /\ UNCHANGED <<paginator, page, condVars, mapVars, indexVars, cacheVars,
                 tableVars, rawVars, withTxVars>>

\* paginator.PrepareResult(result, page); a nil page panics at page.More
CallPrepareResult ==
  /\ selectQuery.pc = "fetched"
  /\ IF page.nil
       THEN /\ selectQuery' = [selectQuery EXCEPT !.pc = "panicked"]
            /\ UNCHANGED <<page, result>>
       ELSE LET out == PrepareResult(result.rows, page) IN
            /\ page' = out.page
            /\ result' = Fetched(result.rows, out.rows, page)
            /\ selectQuery' = [selectQuery EXCEPT !.pc = "done"]
  /\ UNCHANGED <<paginator, condVars, mapVars, indexVars, cacheVars, tableVars,
                 rawVars, withTxVars>>

NextPage == CallPrepareQuery \/ Scan \/ CallPrepareResult
SpecPage == InitPage /\ [][NextPage]_vars

\* ------------------------------------------------------------------ claims
Compiled == compiled.done /\ compiled.err = <<>>

Comparison ==
  /\ Compiled
  /\ expr.kind = "cond"
  /\ Len(expr.entries) = 1
  /\ ~(IsString(expr.entries[1][1]) /\ ~IsSqlizer(expr.entries[1][2]))
LeftOperand == expr.entries[1][1]
RightOperand == expr.entries[1][2]

\* <left fragment><operator text>[ <right fragment>]
ComparisonText(operatorText) ==
  compileLeaf(LeftOperand).sql \o operatorText
    \o (IF compileLeaf(RightOperand).sql = Empty THEN <<>>
        ELSE <<" ">> \o compileLeaf(RightOperand).sql)

\* C9 as stated: the operator between the two fragments is the right
\* operand's own operator when that is a leaf, and '=' for every other right
\* operand (plain value, Raw, In, NotIn, Func, nested select, And/Or).
C9_OperatorFromRightElseEq ==
  Comparison =>
    compiled.sql = ComparisonText(IF IsBinaryExprLeaf(RightOperand)
                                    THEN <<" ">> \o RightOperand.op ELSE <<" ", "=">>)

\* C9 amended: the right operand's own operator when it is a leaf; no operator
\* text at all when it is a Raw, In, NotIn, InMultiple or Func expression (its
\* fragment follows the left fragment after one space); '=' for every other
\* right operand (plain value, nested select, And/Or).
C9_OperatorFromRightNoneForSqlExpr ==
  Comparison =>
    compiled.sql = ComparisonText(
      IF RightOperand.kind = "leaf" THEN <<" ">> \o RightOperand.op
      ELSE IF RightOperand.kind \in {"raw", "func", "inmultiple"} THEN <<>>
      ELSE <<" ", "=">>)

\* a leaf operator other than '=' taken from the right operand
C9_Witness ==
  /\ Comparison
  /\ LeftOperand = Str(<<"a">>)
  /\ RightOperand = NotLike(Val(1))
  /\ compiled.sql = <<"a", " ", "NOT", " ", "LIKE", " ", "?">>

IsConj(x) == x.kind \in {"and", "or"}
Separator(x) == IF x.kind = "and" THEN <<" ", "AND", " ">> ELSE <<" ", "OR", " ">>
ChildFragments(x) == [i \in 1..Len(x.parts) |-> ToSql(x.parts[i]).sql]
NonEmpty(frags) == SelectSeq(frags, LAMBDA f : f # Empty)
Parenthesized(f) == <<"(">> \o f \o <<")">>

\* s occurs in t as a run of consecutive tokens
Occurs(s, t) ==
  \E i \in 0..(Len(t) - Len(s)) : SubSeq(t, i + 1, i + Len(s)) = s

\* the text of a composite as C10 states it: every child fragment joined
JoinedAll(x) == Parenthesized(Join(ChildFragments(x), Separator(x)))

\* the text of a composite joining the non-empty child fragments only
JoinedNonEmpty(x) ==
  IF Len(x.parts) = 0 THEN (IF x.kind = "and" THEN <<"(", "1=1", ")">> ELSE <<"(", "1=0", ")">>)
  ELSE IF NonEmpty(ChildFragments(x)) = <<>> THEN Empty
  ELSE Parenthesized(Join(NonEmpty(ChildFragments(x)), Separator(x)))

\* C10 as stated: an And/Or compiles to its child fragments joined in input
\* order with ' AND ' / ' OR '; as a child of another composite, or as the
\* right operand of a comparison, it appears enclosed in parentheses.
C10_JoinedAndParenthesized ==
  /\ (Compiled /\ IsConj(expr)) =>
       /\ compiled.sql = JoinedAll(expr)
       /\ \A i \in 1..Len(expr.parts) :
            IsConj(expr.parts[i]) => Occurs(JoinedAll(expr.parts[i]), compiled.sql)
  /\ (Comparison /\ IsConj(RightOperand)) =>
       compiled.sql = compileLeaf(LeftOperand).sql \o <<" ", "=", " ">>
                        \o Parenthesized(ToSql(RightOperand).sql)

\* C10 amended: an And/Or compiles to its non-empty child fragments joined in
\* input order with ' AND ' / ' OR ' and enclosed in parentheses (children
\* whose fragment is empty are left out; without children it is (1=1) / (1=0),
\* and with only empty child fragments it is empty); a composite with a
\* non-empty fragment appears enclosed in parentheses as a child of another
\* composite and as the right operand of a comparison.
C10_NonEmptyJoinedAndParenthesized ==
  /\ (Compiled /\ IsConj(expr)) =>
       /\ compiled.sql = JoinedNonEmpty(expr)
       /\ \A i \in 1..Len(expr.parts) :
            (IsConj(expr.parts[i]) /\ ToSql(expr.parts[i]).sql # Empty) =>
              Occurs(JoinedNonEmpty(expr.parts[i]), compiled.sql)
  /\ (Comparison /\ IsConj(RightOperand)) =>
       compiled.sql = compileLeaf(LeftOperand).sql \o <<" ", "=", " ">>
                        \o Parenthesized(ToSql(RightOperand).sql)

\* a composite with two children nested in a composite, and one on the right
\* of a comparison
C10_Witness ==
  /\ Compiled
  /\ \/ /\ IsConj(expr)
        /\ Len(expr.parts) = 2
        /\ IsConj(expr.parts[1])
        /\ Len(expr.parts[1].parts) = 2
        /\ expr.parts[2].kind = "cond"
        /\ Len(compiled.args) = 3
     \/ /\ Comparison
        /\ IsConj(RightOperand)
        /\ Len(RightOperand.parts) = 2
        /\ Len(compiled.args) = 2

\* ------------------------------------------------------- claims on Map
Returns == mapped.done /\ ~mapped.panicked

\* the record after the call's single dereference
Target == IF record.kind = "pointer" /\ ~record.nil THEN record.elem ELSE record

\* a struct was mapped without error
MappedStruct == Returns /\ mapped.err = "" /\ Target.kind = "struct"

\* the options in force
InForce == IF options.isNil THEN defaultMapOptions ELSE options

\* the positions of a column among the returned names
Positions(name) == {i \in 1..Len(mapped.names) : mapped.names[i] = name}

\* the column is returned once and the value at its position is v
BoundTo(name, v) ==
  /\ Cardinality(Positions(name)) = 1
  /\ \A i \in Positions(name) : i <= Len(mapped.values) /\ mapped.values[i] = v

\* C3: names and values have the same length and names[i] is the column that
\* values[i] was produced for; a nil pointer field without omitempty gives
\* one name and one value.
C3_NamesMatchValues ==
  Returns =>
    /\ Len(mapped.names) = Len(mapped.values)
    /\ mapped.names = mapped.cols

\* C4: a non-pointer field marked omitempty that holds the zero value of its
\* type is left out by default options and is bound to DEFAULT, never to the
\* zero value, with IncludeZeroed.
C4_ZeroOmittedOrDefault ==
  (MappedStruct /\ mapped.by = "MapWithOptions") =>
    \A f \in Target.fields :
      (/\ f.tagged
       /\ f.omitempty
       /\ f.val.kind # "ptr"
       /\ IsZeroValue(f.val)
       /\ (f.val.kind = "iszero" => f.val.isZero)) =>
        IF InForce.IncludeZeroed THEN BoundTo(f.name, sqlDefault)
        ELSE Positions(f.name) = {}

\* C5: a nil pointer field is bound to nil when it is not marked omitempty,
\* is left out when it is marked omitempty and IncludeNil is false, and is
\* bound to DEFAULT, never to nil, when it is marked omitempty and IncludeNil
\* is true.
C5_NilPointerPolicy ==
  MappedStruct =>
    \A f \in Target.fields :
      (f.tagged /\ f.val.kind = "ptr" /\ f.val.nil) =>
        IF ~f.omitempty THEN BoundTo(f.name, Nil)
        ELSE IF InForce.IncludeNil THEN BoundTo(f.name, sqlDefault)
        ELSE Positions(f.name) = {}

\* the input is neither a struct nor a map after at most one dereference
InvalidInput ==
  \/ record.kind \in {"nil", "scalar"}
  \/ record.kind = "pointer" /\ record.nil
  \/ record.kind = "pointer" /\ ~record.nil /\ record.elem.kind \notin {"struct", "map"}

\* C6: for every input that is neither a struct nor a map after at most one
\* dereference, the call returns ErrExpectingPointerToEitherMapOrStruct: it
\* does not panic and does not return a nil error.
C6_InvalidInputIsAnError ==
  (mapped.done /\ InvalidInput) =>
    /\ ~mapped.panicked
    /\ mapped.err = ErrExpectingPointerToEitherMapOrStruct

\* ------------------------------------------------- claims (type index)
\* every declared field reached by flattening, with its name, path and depth
RECURSIVE Sightings(_, _, _)
Sightings(fields, path, depth) ==
  UNION {IF fields[i].embedded
           THEN Sightings(fields[i].fields, Append(path, i - 1), depth + 1)
           ELSE {[name |-> ResolvedName(fields[i]), path |-> Append(path, i - 1), depth |-> depth]}
         : i \in DOMAIN fields}

SightingsOf(name) == {s \in Sightings(structType, <<>>, 0) : s.name = name}
\* the sightings of a name at its least depth
Shallowest(name) ==
  {s \in SightingsOf(name) : \A t \in SightingsOf(name) : s.depth <= t.depth}

ResolvedNames == {"a", "b", "c"}

\* C7: every name of the index maps to one field: a name reached at several
\* depths is indexed to the field at the shallowest one, and a name reached
\* more than once at its shallowest depth is absent from the index (lookup
\* by that name returns nothing)
C7_ShallowestWinsTieDropped ==
  typeIndex.done =>
    \A name \in ResolvedNames :
      /\ Cardinality(Shallowest(name)) = 1 =>
           \E s \in Shallowest(name) :
             /\ GetByPath(typeIndex, name).Path = s.path
             /\ GetByPath(typeIndex, name).Depth = s.depth
      /\ Cardinality(Shallowest(name)) # 1 => GetByPath(typeIndex, name) = Absent

\* an index built for a type where one name is reached at two depths and
\* another name twice at the same depth
C7_Witness ==
  /\ typeIndex.done
  /\ \E name \in ResolvedNames :
       /\ Cardinality(SightingsOf(name)) = 2
       /\ Cardinality(Shallowest(name)) = 1
       /\ GetByPath(typeIndex, name) # Absent
  /\ \E name \in ResolvedNames :
       /\ Cardinality(SightingsOf(name)) = 2
       /\ Cardinality(Shallowest(name)) = 2
       /\ GetByPath(typeIndex, name) = Absent

\* ------------------------------------------------ claims (type-index cache)
\* what TypeMap is about to hand to its caller
Returning(g) == calls[g].pc = "return"
Complete(t) == CacheEntry(Lookup(TypeShape(t)))

\* every caller obtains the complete index of its type, the same for all
CallersGetCompleteIndex ==
  \A g \in Goroutines : Returning(g) => calls[g].mapping = Complete(calls[g].type)
\* the entry of a type is stored at most once
WrittenOnce == \A t \in TypeNames : writes[t] <= 1
\* what the cache holds is a complete index, never a part of one
PublishedComplete == \A t \in TypeNames : cache[t].present => cache[t] = Complete(t)
\* an entry that is present stays, unchanged
NeverModified == \A t \in TypeNames : cache[t].present => cache'[t] = cache[t]

\* C8: when several goroutines call TypeMap concurrently for a type not yet
\* cached, every caller obtains a complete index with identical contents,
\* the entry of the type is written once, and no entry is modified or
\* removed after it was published: no reader observes a partial index
C8_WriteOnceCompleteForAll ==
  /\ [](CallersGetCompleteIndex /\ WrittenOnce /\ PublishedComplete)
  /\ [][NeverModified]_vars

\* two goroutines that called TypeMap for the same type before it was
\* cached: one built and stored the index, the other one missed under the
\* read lock and found the entry at its second check
C8_Witness ==
  \E g, h \in Goroutines :
    /\ g # h
    /\ Returning(g) /\ Returning(h)
    /\ calls[g].type = calls[h].type
    /\ calls[g].via = "build"
    /\ calls[h].via = "recheck"
    /\ calls[g].mapping = calls[h].mapping

\* ------------------------------------------------ claims (IN over tuples)
\* the operand of the one comparison of expr, and its tuples
InOperand == expr.entries[1][2]
InName == IF InOperand.kind = "inmultiple" THEN <<"IN">> ELSE InOperand.name
InRows ==
  IF InOperand.kind = "inmultiple" THEN InOperand.v[1]
  ELSE [i \in DOMAIN InOperand.params |-> InOperand.params[i].elems]
\* IN / NOT IN was given one tuple of scalars at least
GivenTuples ==
  /\ compiled.done
  /\ expr \in TupleExprs
  /\ InRows # <<>>
  /\ \A i \in DOMAIN InRows : \A j \in DOMAIN InRows[i] : InRows[i][j].kind = "val"

MarkerGroup(row) == <<"(">> \o Placeholders(Len(row)) \o <<")">>

\* C11: IN / NOT IN given a list of tuples compiles to
\* '<name> IN ((?,?),...,(?,?))', one group of markers for each tuple and one
\* marker for each of its elements, and its arguments are the elements of
\* the tuples in row-major order, never the tuples themselves
C11_TuplesFlattenedRowMajor ==
  GivenTuples =>
    /\ compiled.err = <<>>
    /\ compiled.sql =
         <<"list", " ">> \o InName \o <<" ", "(">>
           \o Join([i \in DOMAIN InRows |-> MarkerGroup(InRows[i])], <<",">>) \o <<")">>
    /\ compiled.args = Flatten(InRows)

\* ------------------------------------------------ claims (IN over scalars)
\* <name> IN / NOT IN over scalar values only
ScalarIn ==
  /\ compiled.done
  /\ expr.kind = "cond"
  /\ Len(expr.entries) = 1
  /\ IsString(LeftOperand)
  /\ RightOperand.kind = "func"
  /\ RightOperand.name \in {<<"IN">>, <<"NOT", " ", "IN">>}
  /\ \A i \in DOMAIN RightOperand.params : RightOperand.params[i].kind = "val"

\* C12: In / NotIn given n >= 0 scalar values compiles without error to
\* '<name> IN (...)' / '<name> NOT IN (...)' with exactly n markers and the
\* n values as arguments in input order; with n = 0 to '<name> IN ()' /
\* '<name> NOT IN ()' without arguments
C12_ScalarsOneMarkerEach ==
  ScalarIn =>
    /\ compiled.err = <<>>
    /\ compiled.sql =
         LeftOperand.s \o <<" ">> \o RightOperand.name \o <<" ", "(">>
           \o Join([i \in DOMAIN RightOperand.params |-> <<"?">>], <<",", " ">>) \o <<")">>
    /\ CountMarkers(compiled.sql) = Len(RightOperand.params)
    /\ compiled.args = RightOperand.params

\* NOT IN over as many different values as the bound allows
C12_Witness ==
  /\ ScalarIn
  /\ RightOperand.name = <<"NOT", " ", "IN">>
  /\ Len(RightOperand.params) = MaxParams
  /\ RightOperand.params[1] # RightOperand.params[MaxParams]
  /\ compiled.args = RightOperand.params

\* ------------------------------------------------------- claims (Func)
\* what a parameter of Func contributes: its own fragment and arguments when
\* it is an expression, one marker and itself otherwise
ParamFragment(a) == IF IsSqlizer(a) THEN ToSql(a).sql ELSE <<"?">>
ParamArgs(a) == IF IsSqlizer(a) THEN ToSql(a).args ELSE <<a>>

\* a Func whose parameters all compile
FuncCall ==
  /\ compiled.done
  /\ expr.kind = "func"
  /\ \A i \in DOMAIN expr.params : IsSqlizer(expr.params[i]) => ToSql(expr.params[i]).err = <<>>

NoValueComparison ==
  /\ compiled.done
  /\ expr.kind = "cond"
  /\ Len(expr.entries) = 1
  /\ RightOperand.kind = "leaf"
  /\ RightOperand.v = Nil
  /\ compileLeaf(LeftOperand).err = <<>>

\* C14: a comparison with IsNull / IsNotNull on the right compiles to exactly
\* '<left fragment> <operator text>' with the arguments of the left operand
\* only: no marker, no trailing space and no argument for the right side
C14_NoValueLeafOperatorOnly ==
  NoValueComparison =>
    /\ compiled.err = <<>>
    /\ compiled.sql = compileLeaf(LeftOperand).sql \o <<" ">> \o RightOperand.op
    /\ compiled.sql[Len(compiled.sql)] # " "
    /\ CountMarkers(compiled.sql) = CountMarkers(compileLeaf(LeftOperand).sql)
    /\ compiled.args = compileLeaf(LeftOperand).args

\* IS NOT NULL after a left operand that has an argument of its own
C14_Witness ==
  /\ NoValueComparison
  /\ RightOperand = IsNotNull
  /\ compiled.args # <<>>
  /\ compiled.sql[Len(compiled.sql)] = "NULL"

\* ------------------------------------------------------- claims (errors)
\* the results of compiling the direct children of an expression: the nodes
\* of a Cond, the parameters of a Func, the parts of And / Or
ChildResults(x) ==
  IF x.kind = "cond"
    THEN [i \in DOMAIN x.entries |-> binaryExprNodeToSql(x.entries[i][1], x.entries[i][2])]
  ELSE IF x.kind = "func"
    THEN [i \in DOMAIN x.params |->
            IF IsSqlizer(x.params[i]) THEN ToSql(x.params[i]) ELSE Result(<<"?">>, <<>>, <<>>)]
  ELSE IF x.kind \in {"and", "or"} THEN [i \in DOMAIN x.parts |-> ToSql(x.parts[i])]
  ELSE <<>>
FailedChildren(x) == {i \in DOMAIN ChildResults(x) : ChildResults(x)[i].err # <<>>}

\* the error names child i and wraps the error of that child
WrapsAndNames(err, x, i) ==
  /\ err = <<err[1]>> \o ChildResults(x)[i].err
  /\ err[1].at = i - 1

\* a failed comparison names the side that failed and wraps its error
NodeNamesSide(left, right) ==
  LET n == binaryExprNodeToSql(left, right) IN
  n.err # <<>> =>
    IF compileLeaf(left).err # <<>>
      THEN n.err = <<Msg("error compiling left side", -1)>> \o compileLeaf(left).err
      ELSE n.err = <<Msg("error compiling right side", -1)>> \o compileLeaf(right).err

\* an expression of the package compiled (a nested statement of squirrel is
\* a child here, never the expression itself)
CompiledExpr == compiled.done /\ expr.kind # "select"

FirstApplicableRule(val) ==
  CASE val.kind = "iszero" -> val.isZero
    [] val.kind \in {"array", "slice"} -> FieldLen(val) = 0
    [] OTHER -> IsZeroValue(val)

\* what the result shows of the decision for an omitempty field: a zero
\* field is left out (bound to DEFAULT with IncludeZeroed), any other field
\* is bound to its value
TreatedAsZero(f) ==
  IF InForce.IncludeZeroed THEN BoundTo(f.name, sqlDefault) ELSE Positions(f.name) = {}
TreatedAsNonZero(f) == BoundTo(f.name, f.val)

\* C16: for a field that is no nil pointer the first applicable rule alone
\* decides zero-ness: IsZero() when the value has it; else length 0 for an
\* array or slice; else deep equality with the zero value of the type
C16_FirstApplicableRuleDecides ==
  (MappedStruct /\ mapped.by = "MapWithOptions") =>
    \A f \in Target.fields :
      (f.tagged /\ f.omitempty /\ ~(f.val.kind = "ptr" /\ f.val.nil)) =>
        IF FirstApplicableRule(f.val) THEN TreatedAsZero(f) ELSE TreatedAsNonZero(f)

\* a value whose IsZero() says zero although it differs from the zero value
\* of its type, left out; beside it a zero-valued array of length > 0, kept
C16_Witness ==
  /\ MappedStruct
  /\ mapped.by = "MapWithOptions"
  /\ ~InForce.IncludeZeroed
  /\ \E f, g \in Target.fields :
       /\ f.tagged /\ f.omitempty /\ f.val = ZeroerV(FALSE, TRUE)
       /\ Positions(f.name) = {}
       /\ g.tagged /\ g.omitempty /\ g.val.kind = "array"
       /\ IsZeroValue(g.val) /\ FieldLen(g.val) > 0
       /\ BoundTo(g.name, g.val)

\* ------------------------------------------------- claims (names order)
\* the names the same call returns when the name index is ranged over in
\* the order o
NamesUnder(o) ==
  IF mapped.by = "Map" THEN Map(record, options, o).names
  ELSE MapWithOptions(record, options, o).names

\* C17: Map applied to structurally equal records of the same type with the
\* same options returns the same names in the same positions, whatever the
\* iteration order of the name index
C17_NamesSameForEveryOrder ==
  Returns => \A o \in Orderings(Entries(record)) : NamesUnder(o) = mapped.names

\* --------------------------------------------- claims (inputs left alone)
\* C18: compiling an expression or projecting a record writes to none of its
\* inputs: the record, every expression node and every argument slice the
\* caller supplied, the spare capacity of its backing array included, hold
\* after the call what they held before
C18_InputsNotWritten == [][expr' = expr /\ record' = record]_vars

\* ------------------------------------------------ claims (LockForUpdates)
AllReturned == \A w \in Workers : work[w].pc = "returned"
LimitsSum == Cardinality({<<w, k>> \in Workers \X (1..MaxLimit) : k <= work[w].limit})
HandedTo(r) == {e.by : e \in {h \in ledger.handed : h.rec = r}}

InsertsOf(i) ==
  {k \in DOMAIN saved.events :
     saved.events[k].op \in {"InsertRecord", "InsertRecords"} /\ i \in saved.events[k].at}

\* C20: whenever Save creates a record (GetID() is zero, an INSERT is issued)
\* of a type implementing SetCreatedAt, SetCreatedAt is called on the record
\* before the INSERT is built, for one record and for several
C20_CreatedAtSetBeforeInsert ==
  saved.done =>
    \A i \in DOMAIN batch : \A k \in InsertsOf(i) :
      batch[i].hasSetCreatedAt =>
        \E j \in 1..(k - 1) : saved.events[j] = Event("SetCreatedAt", {i})

\* ---------------------------------------------------------------- C21
RECURSIVE NumberedFrom(_, _, _)
\* the text of query[i..] with the placeholders numbered from k on
NumberedFrom(query, i, k) ==
  IF i > Len(query) THEN <<>>
  ELSE IF query[i] = "?" THEN Dollar(k) \o NumberedFrom(query, i + 1, k + 1)
  ELSE <<query[i]>> \o NumberedFrom(query, i + 1, k)

\* a RawSQL with n >= 1 placeholders and n arguments, compiled by ToSql
RawCompiled ==
  /\ prepared.by = "ToSql"
  /\ ~rawSQL.statement
  /\ rawSQL.err = ""
  /\ Len(rawSQL.Args) >= 1
  /\ CountPlaceholders(rawSQL.Query) = Len(rawSQL.Args)

\* C21: for a RawSQL query with n >= 1 '?' and n arguments, ToSql returns the
\* text with the i-th '?' replaced by '$i', everything else unchanged, and the
\* n arguments in their order, wherever the '?' stand (at the start, adjacent)
C21_PlaceholdersNumbered ==
  RawCompiled =>
    /\ prepared.err = ""
    /\ prepared.sql = NumberedFrom(rawSQL.Query, 1, 1)
    /\ prepared.args = rawSQL.Args
\* the same for the queries in which no '?' stands first or follows another
C21_SeparatedPlaceholders ==
  (RawCompiled /\ \A i \in 1..Len(Split(rawSQL.Query, "?")) - 1 : Split(rawSQL.Query, "?")[i] # <<>>)
    => /\ prepared.err = ""
       /\ prepared.sql = NumberedFrom(rawSQL.Query, 1, 1)
       /\ prepared.args = rawSQL.Args
C21_Witness ==
  /\ RawCompiled
  /\ rawSQL.Query = <<"a", "?", ",", "?">>
  /\ prepared.sql = <<"a", "$", "1", ",", "$", "2">>

\* ---------------------------------------------------------------- C22
\* the default size and the maximum the configuration stands for: a zero or
\* absent value is the package's constant, the maximum is at least the default
EffectiveDefault ==
  LET d == OptionOr(paginator.configured.DefaultSize, 0) IN
  IF d = 0 THEN DefaultPageSize ELSE d
EffectiveMax ==
  LET m == OptionOr(paginator.configured.MaxSize, 0)
      max == IF m = 0 THEN MaxPageSize ELSE m
  IN IF max < EffectiveDefault THEN EffectiveDefault ELSE max

\* C22: for every paginator of NewPaginator (WithDefaultSize, WithMaxSize of any
\* value, zero included) and every page, PrepareQuery limits the query to at
\* most MaxSize+1 rows, MaxSize being the configured maximum, MaxPageSize when
\* that is zero, raised to DefaultSize when smaller; a zero DefaultSize behaves
\* as DefaultPageSize: a page without a size is limited to DefaultPageSize+1
C22_LimitAtMostMaxSizePlusOne ==
  selectQuery.pc = "queried" =>
    /\ selectQuery.limit <= EffectiveMax + 1
    /\ (selectQuery.pageArg.nil \/ selectQuery.pageArg.Size = 0)
         => selectQuery.limit = EffectiveDefault + 1
C22_Witness ==
  /\ selectQuery.pc = "queried"
  /\ paginator.configured = [DefaultSize |-> {0}, MaxSize |-> {5}]
  /\ ~selectQuery.pageArg.nil
  /\ selectQuery.pageArg.Size = 0
  /\ selectQuery.limit = DefaultPageSize + 1

\* ---------------------------------------------------------------- C23
\* C23: PrepareResult, given r rows and a page of limit n, returns the first
\* min(r, n) rows in their order and sets page.More exactly when r > n
C23_FirstRowsAndMore ==
  selectQuery.pc = "done" =>
    LET r == Len(result.rows)
        n == Limit(result.pageArg)
    IN /\ result.returned = SubSeq(result.rows, 1, IF r < n THEN r ELSE n)
       /\ page.More <=> r > n
C23_Witness ==
  /\ selectQuery.pc = "done"
  /\ selectQuery.limit = Limit(result.pageArg) + 1
  /\ Len(result.rows) = selectQuery.limit
  /\ Len(result.returned) = Len(result.rows) - 1
  /\ page.More

\* ---------------------------------------------------------------- C24
\* C24: for every page with Page >= 1 and Size >= 1, PrepareResult leaves
\* page.Page as it was, also when (Page-1)*Size does not fit in a uint32
C24_PageNumberKept ==
  (selectQuery.pc = "done" /\ result.pageArg.Page >= 1 /\ result.pageArg.Size >= 1)
    => page.Page = result.pageArg.Page
\* the same for the pages whose offset fits in a uint32
C24_PageNumberKeptWithinWord ==
  (/\ selectQuery.pc = "done"
   /\ result.pageArg.Page >= 1
   /\ result.pageArg.Size >= 1
   /\ (result.pageArg.Page - 1) * result.pageArg.Size < 2 ^ WordBits)
    => page.Page = result.pageArg.Page

\* ---------------------------------------------------------------- C25
\* C25: PrepareQuery does not modify the caller's page.Column nor any element
\* of page.Sort: quoting, ColumnFunc and order normalisation go to the ORDER BY
C25_SortNotModified ==
  (selectQuery.pc = "queried" /\ ~selectQuery.pageArg.nil) =>
    /\ page.Column = selectQuery.pageArg.Column
    /\ page.Sort = selectQuery.pageArg.Sort
\* the same for the current version of GetOrder alone
C25_SortNotModifiedByClone ==
  (selectQuery.pc = "queried" /\ ~selectQuery.pageArg.nil
     /\ paginator.version = "current") =>
    /\ page.Column = selectQuery.pageArg.Column
    /\ page.Sort = selectQuery.pageArg.Sort

\* ---------------------------------------------------------------- C26
\* C26: one call of LockForUpdates runs the sequence SELECT .. FOR UPDATE SKIP
\* LOCKED, updateFn, UPDATE of each record exactly once and calls updateFn
\* exactly once; on a table bound to a transaction the sequence runs on that
\* transaction and no new transaction is begun
C26_SequenceRunsOnce ==
  \A w \in Workers :
    work[w].pc = "returned" =>
      /\ work[w].updateFnCalls = 1
      /\ work[w].bound => work[w].began = 0
\* the same for the calls on a table not bound to a transaction
C26_SequenceRunsOnceUnbound ==
  \A w \in Workers :
    (work[w].pc = "returned" /\ ~work[w].bound) =>
      /\ work[w].updateFnCalls = 1
      /\ work[w].began = 1

\* ---------------------------------------------------------------- C27
\* C27: Table.WithTx(tx) returns a table that differs from the receiver only
\* in the transaction its queries run on: Name and IDColumn are the receiver's
C27_WithTxKeepsIDColumn ==
  txTable # NoTableValue =>
    /\ txTable.Name = receiver.Name
    /\ txTable.IDColumn = receiver.IDColumn
    /\ txTable.Tx = "tx"
\* what WithTx does keep
C27_WithTxKeepsName ==
  txTable # NoTableValue => (txTable.Name = receiver.Name /\ txTable.Tx = "tx")

\* ---------------------------------------------------------------- C28
UpdatesOf(i) ==
  {k \in DOMAIN saved.events :
     saved.events[k].op = "UpdateRecord" /\ i \in saved.events[k].at}

\* C28: a Save of several records issues, for every record with a non-zero ID,
\* an UPDATE keyed on the table's IDColumn, as Save of that record alone does
C28_UpdateKeyedOnIDColumn ==
  (saved.done /\ saved.on = receiver /\ Len(batch) >= 2) =>
    \A i \in DOMAIN batch : \A k \in UpdatesOf(i) :
      saved.events[k].key = receiver.IDColumn
\* the same for a Save of one record
C28_SingleUpdateKeyedOnIDColumn ==
  (saved.done /\ saved.on = receiver /\ Len(batch) = 1) =>
    \A k \in UpdatesOf(1) : saved.events[k].key = receiver.IDColumn

\* ---------------------------------------------------------------- C29
\* C29: when a Save of several records returns an error because a record is
\* nil or fails Validate, no INSERT or UPDATE was sent and no record of the
\* caller's slice was modified (no SetUpdatedAt, no SetCreatedAt)
C29_FailedSaveHasNoEffect ==
  (saved.done /\ Len(batch) >= 2 /\ saved.err # "") =>
    /\ \A k \in DOMAIN saved.events :
         saved.events[k].op \notin {"InsertRecord", "InsertRecords", "BatchExec"}
    /\ saved.records = batch
    /\ \A k \in DOMAIN saved.events :
         saved.events[k].op \notin {"SetUpdatedAt", "SetCreatedAt"}
\* the part that does hold: no statement was sent
C29_FailedSaveSendsNothing ==
  (saved.done /\ Len(batch) >= 2 /\ saved.err # "") =>
    \A k \in DOMAIN saved.events :
      saved.events[k].op \notin {"InsertRecord", "InsertRecords", "BatchExec"}

\* ---------------------------------------------------------------- C30
\* the map of a Cond ranged over in the order f of its entries
RangedOver(c, f) == Cond([i \in DOMAIN c.entries |-> c.entries[f[i]]])

\* the fragment and the arguments of another call of ToSql on the Cond
\* compiled, its map ranged over in any order, are those of the first call:
\* for the Conds of at most limit entries
SameOnEveryRange(limit) ==
  (compiled.done /\ expr.kind = "cond" /\ Len(expr.entries) <= limit) =>
    \A f \in Orderings(DOMAIN expr.entries) :
      LET again == ToSql(RangedOver(expr, f)) IN
      /\ again.sql = compiled.sql
      /\ again.args = compiled.args

\* C30: Cond.ToSql is deterministic: the same Cond, of any number of entries,
\* compiles to the same fragment and the same arguments on every call,
\* whatever the iteration order of the map
C30_CondDeterministic == SameOnEveryRange(MaxParams)
\* the same for the Conds of at most one entry
C30_SingleEntryDeterministic == SameOnEveryRange(1)

====
